---- MODULE Spec2Model ----
(***************************************************************************)
(* A model of the PowerShell execution gateway of the MCP server:          *)
(*   src/server.py  validate_powershell_code, run_powershell,              *)
(*                  execute_powershell, run_powershell_with_progress       *)
(*   src/run.py     handle_tool_call (the run_powershell tool of the       *)
(*                  stdio server)                                          *)
(* Text is a sequence of one-character strings; bytes are integers.        *)
(* Every invocation has its own slot i \in Inv: its request, its program   *)
(* counter, its child process and the outcomes delivered to its caller.    *)
(***************************************************************************)
EXTENDS Integers, Sequences, FiniteSets, TLC

\* ------------------------------------------------------------------ bounds

\* Invocation slots of the model.
NumInv == 2
\* The most bytes a child process writes to one of its streams.
MaxOut == 2

\* ------------------------------------------------------- program constants

MinTimeout == 1
MaxTimeout == 300
DefaultTimeout == 60

Inv == 1..NumInv

\* ------------------------------------------------------------------- text

UpperCase == <<"A", "B", "C", "D", "E", "F", "G", "H", "I", "J", "K", "L", "M", "N", "O", "P", "Q", "R", "S", "T", "U", "V", "W", "X", "Y", "Z">>
LowerCase == <<"a", "b", "c", "d", "e", "f", "g", "h", "i", "j", "k", "l", "m", "n", "o", "p", "q", "r", "s", "t", "u", "v", "w", "x", "y", "z">>

\* Lower without the case folding: the search made without re.IGNORECASE.
LowerIdentity(c) == c

\* str.lower() of one character (re.IGNORECASE folds both sides with it).
Lower(c) ==
    IF \E k \in 1..26 : UpperCase[k] = c
    THEN LowerCase[CHOOSE k \in 1..26 : UpperCase[k] = c]
    ELSE c

\* The characters \s matches.
Whitespace == {" ", "\t", "\n", "\r", "\f"}

\* ------------------------------------------------- regular expressions (re)

Lit(w) == [t |-> "lit", w |-> w]
Class(cs) == [t |-> "set", cs |-> cs]
Dot == [t |-> "dot"]
Cat(a) == [t |-> "cat", a |-> a]
Alt(a) == [t |-> "alt", a |-> a]
Star(r) == [t |-> "star", r |-> r]
Plus(r) == Cat(<<r, Star(r)>>)

RECURSIVE Ends(_, _, _)
RECURSIVE CatEnds(_, _, _, _)
RECURSIVE StarEnds(_, _, _, _)

\* The positions after a match of re in s that starts at position p,
\* letters compared case-insensitively (re.IGNORECASE).
Ends(re, s, p) ==
    CASE re.t = "lit" ->
           IF /\ p + Len(re.w) - 1 <= Len(s)
              /\ \A k \in 1..Len(re.w) : Lower(s[p + k - 1]) = Lower(re.w[k])
           THEN {p + Len(re.w)} ELSE {}
      [] re.t = "set" ->
           IF p <= Len(s) /\ Lower(s[p]) \in re.cs THEN {p + 1} ELSE {}
      [] re.t = "dot" ->
           IF p <= Len(s) /\ s[p] # "\n" THEN {p + 1} ELSE {}
      [] re.t = "cat" -> CatEnds(re.a, 1, s, {p})
      [] re.t = "alt" -> UNION {Ends(re.a[k], s, p) : k \in 1..Len(re.a)}
      [] re.t = "star" -> StarEnds(re.r, s, {p}, {p})

CatEnds(a, k, s, ps) ==
    IF k > Len(a) THEN ps
    ELSE CatEnds(a, k + 1, s, UNION {Ends(a[k], s, p) : p \in ps})

StarEnds(r, s, frontier, seen) ==
    LET nxt == (UNION {Ends(r, s, p) : p \in frontier}) \ seen
    IN  IF nxt = {} THEN seen ELSE StarEnds(r, s, nxt, seen \cup nxt)

\* re.search(pattern, code, re.IGNORECASE) is not None
re_search(re, s) == \E p \in 1..(Len(s) + 1) : Ends(re, s, p) # {}

\* ------------------------------------------------------------ the deny list

dangerous_patterns == <<
    \* rm\s+(-r|-f|/s)*\s*/
    Cat(<<Lit(<<"r", "m">>), Plus(Class(Whitespace)),
          Star(Alt(<<Lit(<<"-", "r">>), Lit(<<"-", "f">>), Lit(<<"/", "s">>)>>)),
          Star(Class(Whitespace)), Lit(<<"/">>)>>),
    \* format\s+[a-z]:
    Cat(<<Lit(<<"f", "o", "r", "m", "a", "t">>), Plus(Class(Whitespace)),
          Class({LowerCase[k] : k \in 1..26}), Lit(<<":">>)>>),
    Lit(<<"S", "t", "o", "p", "-", "C", "o", "m", "p", "u", "t", "e", "r">>),
    Lit(<<"R", "e", "s", "t", "a", "r", "t", "-", "C", "o", "m", "p", "u", "t", "e", "r">>),
    \* Remove-Item.*-Recurse
    Cat(<<Lit(<<"R", "e", "m", "o", "v", "e", "-", "I", "t", "e", "m">>), Star(Dot),
          Lit(<<"-", "R", "e", "c", "u", "r", "s", "e">>)>>),
    Lit(<<"I", "n", "v", "o", "k", "e", "-", "E", "x", "p", "r", "e", "s", "s", "i", "o", "n">>),
    Lit(<<"i", "e", "x">>),
    Lit(<<"S", "t", "a", "r", "t", "-", "P", "r", "o", "c", "e", "s", "s">>),
    Lit(<<"N", "e", "w", "-", "S", "e", "r", "v", "i", "c", "e">>),
    Lit(<<"S", "e", "t", "-", "S", "e", "r", "v", "i", "c", "e">>),
    \* net\s+user
    Cat(<<Lit(<<"n", "e", "t">>), Plus(Class(Whitespace)), Lit(<<"u", "s", "e", "r">>)>>)
>>

\* True iff the code matches none of the dangerous patterns.
validate_powershell_code(code) ==
    ~ \E k \in 1..Len(dangerous_patterns) : re_search(dangerous_patterns[k], code)

\* ------------------------------------------------------------ request data

\* Command texts without a deny-listed pattern.
CleanTexts == {
    <<"G", "e", "t", "-", "D", "a", "t", "e">>,
    <<"e", "x", "i", "t", " ", "1">> }

\* Command texts with a deny-listed pattern, in several letter cases.
DenyListedTexts == {
    <<"i", "E", "x", " ", "a">>,
    <<"F", "O", "R", "M", "A", "T", " ", "c", ":">>,
    <<"n", "e", "t", " ", " ", "u", "s", "e", "r">>,
    <<"r", "m", " ", "-", "r", " ", "/">> }

Texts == CleanTexts \cup DenyListedTexts

\* A timeout argument: an int, or a value that is no int (None, 1.5, "60").
IntT(n) == [isint |-> TRUE, n |-> n]
NotAnInt == [isint |-> FALSE, n |-> 0]
TimeoutArgs ==
    {IntT(n) : n \in {0 - 1, 0, MinTimeout, DefaultTimeout, MaxTimeout, MaxTimeout + 1}}
        \cup {NotAnInt}

\* TimeoutValid without the upper limit.
TimeoutValidNoUpperLimit(t) == t.isint /\ t.n >= MinTimeout

\* not isinstance(timeout, int) or timeout < 1 or timeout > 300, negated
TimeoutValid(t) == t.isint /\ t.n >= MinTimeout /\ t.n <= MaxTimeout

\* ------------------------------------------------------- bytes and decoding

\* The bytes a child process writes: an ASCII letter, or 0xFF, which occurs
\* in no UTF-8 encoding.
StdoutBytes == {111, 255}
StderrBytes == {101, 255}

Chr(b) == CASE b = 111 -> "o" [] b = 101 -> "e"

\* Whether bytes.decode() succeeds (over the bytes above: all of them ASCII).
Utf8Valid(bs) == \A k \in 1..Len(bs) : bs[k] < 128

\* bytes.decode() of valid bytes: the text of the same length.
decode(bs) == [k \in 1..Len(bs) |-> Chr(bs[k])]

\* A stream read in text mode (text=True) is decoded with the encoding of the
\* locale, a single-byte code page in which 0xFF is a character too.
LocaleChr(b) == IF b < 128 THEN Chr(b) ELSE "<U+00FF>"
locale_decode(bs) == [k \in 1..Len(bs) |-> LocaleChr(bs[k])]

\* --------------------------------------------------------------- outcomes

NoMsg == [tag |-> "none", s |-> "", t |-> <<>>, n |-> 0]
FixedMsg(s) == [tag |-> "fixed", s |-> s, t |-> <<>>, n |-> 0]
TextMsg(t) == [tag |-> "text", s |-> "", t |-> t, n |-> 0]
\* f"Command timed out after {timeout} seconds"
TimedOutMsg(timeout) == [tag |-> "timed_out", s |-> "Command timed out after", t |-> <<>>, n |-> timeout.n]

TimeoutRangeMsg == FixedMsg("timeout must be between 1 and 300 seconds")
DangerousMsg == FixedMsg("PowerShell code contains potentially dangerous commands")
NoErrorOutputMsg == FixedMsg("Command failed with no error output")

\* What an invocation delivers to its caller: a returned text or a raised error.
Text(t) == [kind |-> "text", class |-> "none", msg |-> NoMsg, text |-> t]
Err(class, msg) == [kind |-> "error", class |-> class, msg |-> msg, text |-> <<>>]
NoOutcome == [kind |-> "none", class |-> "none", msg |-> NoMsg, text |-> <<>>]

\* ============================================================ the templates
\* src/server.py: generate_script_from_template, generate_custom_script,
\* normalize_path, ensure_directory, generate_intune_detection_script,
\* generate_intune_remediation_script, generate_intune_script_pair,
\* get_powershell_template, list_templates.

\* ---------------------------------------------------------- bounds (templates)

\* Template operations in one behaviour.
MaxOps == 2

\* ------------------------------------------------------------ placeholder maps

\* A value of the placeholder map (Dict[str, Any]): a str or an int.
StrV(t) == [isstr |-> TRUE, t |-> t, n |-> 0]
IntV(n) == [isstr |-> FALSE, t |-> <<>>, n |-> n]

\* str(n) of an int n >= 0.
RECURSIVE IntStr(_)
IntStr(n) ==
    LET Digits == <<"0", "1", "2", "3", "4", "5", "6", "7", "8", "9">>
    IN  IF n < 10 THEN <<Digits[n + 1]>> ELSE IntStr(n \div 10) \o <<Digits[(n % 10) + 1]>>

\* str(value)
Str(v) == IF v.isstr THEN v.t ELSE IntStr(v.n)

\* A dict is the sequence of its items in insertion order.
Item(k, v) == [k |-> k, v |-> v]
HasKey(m, k) == \E j \in 1..Len(m) : m[j].k = k

\* m[k] = v: the value of an existing key is replaced in place, a new key
\* goes to the end.
SetItem(m, k, v) ==
    IF HasKey(m, k)
    THEN [j \in 1..Len(m) |-> IF m[j].k = k THEN Item(k, v) ELSE m[j]]
    ELSE Append(m, Item(k, v))

\* ------------------------------------------------------------- substitution

\* f"{{{{{key}}}}}"
Marker(key) == <<"{", "{">> \o key \o <<"}", "}">>

StartsWith(s, old) == Len(s) >= Len(old) /\ SubSeq(s, 1, Len(old)) = old

\* s.replace(old, new, 1): the first occurrence only.
replace_first(s, old, new) ==
    IF \E p \in 1..Len(s) : StartsWith(SubSeq(s, p, Len(s)), old)
    THEN LET p == CHOOSE x \in 1..Len(s) :
                      /\ StartsWith(SubSeq(s, x, Len(s)), old)
                      /\ \A y \in 1..(x - 1) : ~StartsWith(SubSeq(s, y, Len(s)), old)
         IN  SubSeq(s, 1, p - 1) \o new \o SubSeq(s, p + Len(old), Len(s))
    ELSE s

\* s.replace(old, new) for a non-empty old: the occurrences of old are found
\* from the left, without overlap, and what a replacement puts in is not
\* searched again.
RECURSIVE replace(_, _, _)
replace(s, old, new) ==
    IF s = <<>> THEN <<>>
    ELSE IF StartsWith(s, old)
         THEN new \o replace(SubSeq(s, Len(old) + 1, Len(s)), old, new)
         ELSE <<Head(s)>> \o replace(Tail(s), old, new)

\* The loop run from the last item to the first.
RECURSIVE SubstituteAllReversed(_, _)
SubstituteAllReversed(content, m) ==
    IF m = <<>> THEN content
    ELSE replace(SubstituteAllReversed(content, Tail(m)), Marker(m[1].k), Str(m[1].v))

\* for key, value in parameters.items(): script_content = script_content.replace(...)
RECURSIVE SubstituteAll(_, _)
SubstituteAll(content, m) ==
    IF m = <<>> THEN content
    ELSE SubstituteAll(replace(content, Marker(m[1].k), Str(m[1].v)), Tail(m))

DATE == <<"D", "A", "T", "E">>

\* DATE set only when the caller gave none: parameters.setdefault('DATE', ...).
ParametersDateDefault(m, date) == IF HasKey(m, DATE) THEN m ELSE SetItem(m, DATE, StrV(date))

\* parameters['DATE'] = datetime.now().strftime('%Y-%m-%d')
ParametersWithDate(m, date) == SetItem(m, DATE, StrV(date))

\* The DATE put into the map before the template is looked up.
ParametersInjectedEarly(m, date) == SetItem(m, DATE, StrV(date))

\* The caller's map when the template is looked up: nothing has touched it.
ParametersAtCheck(m, date) == m

\* The loop run before the DATE is put into the map.
LoopItemsBeforeDate(m, date) == m

\* The items the substitution loop iterates: those of the map with its DATE.
LoopItems(m, date) == ParametersWithDate(m, date)

\* ------------------------------------------------------------ the file system

\* A path is the sequence of its components; a component is a name with its
\* extension ("" when it has none).  A path argument is a str: relative or
\* absolute, with or without a leading "./"; given = FALSE is None.
Comp(stem, ext) == [stem |-> stem, ext |-> ext]
NoPath == [given |-> FALSE, abs |-> FALSE, dot |-> FALSE, parts |-> <<>>]
RelPath(parts) == [given |-> TRUE, abs |-> FALSE, dot |-> FALSE, parts |-> parts]
DotPath(parts) == [given |-> TRUE, abs |-> FALSE, dot |-> TRUE, parts |-> parts]
AbsPath(parts) == [given |-> TRUE, abs |-> TRUE, dot |-> FALSE, parts |-> parts]

\* bool(path): None and "" are false.
Truthy(p) == p.given /\ (p.abs \/ p.dot \/ p.parts # <<>>)

\* os.getcwd()
Cwd == <<Comp("work", "")>>

\* TEMPLATES_DIR = os.path.join(os.path.dirname(__file__), 'templates')
TEMPLATES_DIR == <<Comp("src", ""), Comp("templates", "")>>

\* The file the operating system opens for a path: a relative one is taken
\* from the working directory.
Resolve(p) == IF p.abs THEN p.parts ELSE Cwd \o p.parts

Front(path) == SubSeq(path, 1, Len(path) - 1)
Prefixes(path) == {SubSeq(path, 1, k) : k \in 0..Len(path)}

\* The file system: the directories, and the regular files with their text.
FileSystem(fs, ds) == [files |-> fs, dirs |-> ds]
IsFile(fsys, path) == path \in DOMAIN fsys.files
IsDir(fsys, path) == path \in fsys.dirs
\* os.path.exists(path)
Exists(fsys, path) == IsFile(fsys, path) \/ IsDir(fsys, path)

\* os.makedirs(path, exist_ok=True) can be done: no component is a regular file.
CanMakeDirs(fsys, path) == \A q \in Prefixes(path) : ~IsFile(fsys, q)
MakeDirs(fsys, path) == FileSystem(fsys.files, fsys.dirs \cup Prefixes(path))

\* open(path, 'w') can be done: the directory is there and path is none.
CanWrite(fsys, path) == path # <<>> /\ IsDir(fsys, Front(path)) /\ ~IsDir(fsys, path)
\* with open(path, 'w') as f: f.write(content)
WriteFile(fsys, path, content) ==
    FileSystem([q \in DOMAIN fsys.files \cup {path} |->
                   IF q = path THEN content ELSE fsys.files[q]],
               fsys.dirs)

\* ------------------------------------------------------------------ results

\* What an operation leaves: the file system, the caller's map, its result.
Outcome(fsys, m, res) == [fsys |-> fsys, map |-> m, res |-> res]

NotFoundMsg(name) == [tag |-> "not_found", s |-> name, t |-> <<>>, n |-> 0]
\* f"Script generated and saved to: {output_path}"
SavedTo(p) == [kind |-> "saved", class |-> "none", msg |-> NoMsg, text |-> <<>>, path |-> p]
\* The error open() raises for a path it cannot write.
WriteError(fsys, path) ==
    IF IsDir(fsys, path)
    THEN Err("IsADirectoryError", FixedMsg("Is a directory"))
    ELSE Err("FileNotFoundError", FixedMsg("No such file or directory"))

\* normalize_path: "" is refused, "./" is cut off, a relative path is joined
\* to the working directory.
\* The path is returned as it was given, not joined to the working directory.
normalize_path_no_join(p) == p.parts
normalize_path(p) == IF p.abs THEN p.parts ELSE Cwd \o p.parts

\* ensure_directory(path): the directory made is the path itself, or its
\* parent when the last component has an extension; returns the absolute path.
ensure_directory(fsys, p) ==
    IF ~p.abs /\ ~p.dot /\ p.parts = <<>>
    THEN Outcome(fsys, <<>>, Err("ValueError", FixedMsg("Path cannot be empty")))
    ELSE LET abs_path == normalize_path(p)
             dir_path == IF abs_path # <<>> /\ abs_path[Len(abs_path)].ext # ""
                         THEN Front(abs_path) ELSE abs_path
         IN  IF CanMakeDirs(fsys, dir_path)
             THEN Outcome(MakeDirs(fsys, dir_path), <<>>,
                          [kind |-> "path", class |-> "none", msg |-> NoMsg, text |-> <<>>,
                           path |-> AbsPath(abs_path)])
             ELSE Outcome(fsys, <<>>, Err("FileExistsError", FixedMsg("File exists")))

\* ------------------------------------------------------------- the catalog

\* The texts of the template files.  The files of the templates directory are
\* not part of the sources at hand: a template is static text with markers
\* {{KEY}}, and the two Intune templates carry the markers of the keys that
\* generate_intune_detection_script and generate_intune_remediation_script pass.
CatalogText ==
    [two |->
        <<"{", "{", "A", "}", "}", "-", "{", "{", "A", "}", "}", ":", "{", "{", "D", "A", "T",
        "E", "}", "}">>,
     adjacent |->
        <<"{", "{", "A", "}", "}", "{", "{", "B", "}", "}", "{", "{", "A", "}", "}">>,
     intune_detection |->
        <<"D", ":", "{", "{", "S", "Y", "N", "O", "P", "S", "I", "S", "}", "}", ":", "{", "{",
        "D", "E", "S", "C", "R", "I", "P", "T", "I", "O", "N", "}", "}", ":", "{", "{", "D", "A",
        "T", "E", "}", "}", ":", "{", "{", "D", "E", "T", "E", "C", "T", "I", "O", "N", "_", "L",
        "O", "G", "I", "C", "}", "}">>,
     intune_remediation |->
        <<"R", ":", "{", "{", "S", "Y", "N", "O", "P", "S", "I", "S", "}", "}", ":", "{", "{",
        "D", "E", "S", "C", "R", "I", "P", "T", "I", "O", "N", "}", "}", ":", "{", "{", "D", "A",
        "T", "E", "}", "}", ":", "{", "{", "R", "E", "M", "E", "D", "I", "A", "T", "I", "O", "N",
        "_", "L", "O", "G", "I", "C", "}", "}">>]

\* os.path.join(TEMPLATES_DIR, f"{template_name}.ps1")
TemplatePath(template_name) == TEMPLATES_DIR \o <<Comp(template_name, "ps1")>>

\* The file system at startup: the working directory, and the templates
\* directory with the catalog.
InitialFileSystem ==
    FileSystem([path \in {TemplatePath(n) : n \in DOMAIN CatalogText} |->
                   CatalogText[path[Len(path)].stem]],
               Prefixes(Cwd) \cup Prefixes(TEMPLATES_DIR))

\* The templates a file system holds: name |-> text.
Catalog(fsys) ==
    [path \in {f \in DOMAIN fsys.files : Front(f) = TEMPLATES_DIR /\ f[Len(f)].ext = "ps1"} |->
        fsys.files[path]]

\* ---------------------------------------------------------- the operations

\* generate_script_from_template(template_name, parameters, output_path) on
\* the day `date`: the template is looked up first; then DATE is put into the
\* caller's map, the markers are replaced, and the content is written to
\* output_path (as the caller gave it) or returned.
generate_script_from_template(fsys, template_name, parameters, output_path, date) ==
    LET template_path == TemplatePath(template_name)
    IN  IF ~Exists(fsys, template_path)
        THEN Outcome(fsys, ParametersAtCheck(parameters, date),
                     Err("ValueError", NotFoundMsg(template_name)))
        ELSE IF IsDir(fsys, template_path)
        THEN Outcome(fsys, parameters, Err("IsADirectoryError", FixedMsg("Is a directory")))
        ELSE LET template_content == fsys.files[template_path]
                 after == ParametersWithDate(parameters, date)
                 script_content == SubstituteAll(template_content, LoopItems(parameters, date))
             IN  IF Truthy(output_path)
                 THEN IF CanWrite(fsys, Resolve(output_path))
                      THEN Outcome(WriteFile(fsys, Resolve(output_path), script_content),
                                   after, SavedTo(output_path))
                      ELSE Outcome(fsys, after, WriteError(fsys, Resolve(output_path)))
                 ELSE Outcome(fsys, after, Text(script_content))

\* generate_custom_script(description, script_type, output_path=...): the
\* content is the help block with the description, the script type and the
\* date (the fixed lines of the logging, error handling and main blocks are
\* left out).
generate_custom_script(fsys, description, script_type, output_path, date) ==
    LET final_content == <<"<", "#">> \o description \o <<"\n">> \o script_type \o <<"\n">>
                             \o date \o <<"#", ">">>
    IN  IF Truthy(output_path)
        THEN IF CanWrite(fsys, Resolve(output_path))
             THEN Outcome(WriteFile(fsys, Resolve(output_path), final_content),
                          <<>>, SavedTo(output_path))
             ELSE Outcome(fsys, <<>>, WriteError(fsys, Resolve(output_path)))
        ELSE Outcome(fsys, <<>>, Text(final_content))

\* The Intune script of one kind: params is built, the directory of
\* output_path is ensured when a path is given, and the template is rendered
\* to the absolute path ensure_directory returns.
\* IntuneScript with a default destination: without output_path the script is
\* written to <template_name>.ps1 in the working directory.
IntuneScriptDefaultPath(fsys, template_name, params, output_path, date) ==
    LET out == IF Truthy(output_path) THEN output_path
               ELSE RelPath(<<Comp(template_name, "ps1")>>)
        e == ensure_directory(fsys, out)
    IN  IF e.res.kind = "error"
        THEN e
        ELSE generate_script_from_template(e.fsys, template_name, params, e.res.path, date)

IntuneScript(fsys, template_name, params, output_path, date) ==
    IF Truthy(output_path)
    THEN LET e == ensure_directory(fsys, output_path)
         IN  IF e.res.kind = "error"
             THEN e
             ELSE generate_script_from_template(e.fsys, template_name, params,
                                                e.res.path, date)
    ELSE generate_script_from_template(fsys, template_name, params, NoPath, date)

generate_intune_detection_script(fsys, description, detection_logic, output_path, date) ==
    IntuneScript(fsys, "intune_detection",
                 <<Item(<<"S", "Y", "N", "O", "P", "S", "I", "S">>,
                        StrV(<<"I", "n", "t", "u", "n", "e", " ", "D", "e", "t", "e", "c", "t", "i", "o", "n", " ", "S", "c", "r", "i", "p", "t", " ", "-", " ">>
                             \o description)),
                   Item(<<"D", "E", "S", "C", "R", "I", "P", "T", "I", "O", "N">>, StrV(description)),
                   Item(DATE, StrV(date)),
                   Item(<<"D", "E", "T", "E", "C", "T", "I", "O", "N", "_", "L", "O", "G", "I", "C">>,
                        StrV(detection_logic))>>,
                 output_path, date)

generate_intune_remediation_script(fsys, description, remediation_logic, output_path, date) ==
    IntuneScript(fsys, "intune_remediation",
                 <<Item(<<"S", "Y", "N", "O", "P", "S", "I", "S">>,
                        StrV(<<"I", "n", "t", "u", "n", "e", " ", "R", "e", "m", "e", "d", "i", "a", "t", "i", "o", "n", " ", "S", "c", "r", "i", "p", "t", " ", "-", " ">>
                             \o description)),
                   Item(<<"D", "E", "S", "C", "R", "I", "P", "T", "I", "O", "N">>, StrV(description)),
                   Item(DATE, StrV(date)),
                   Item(<<"R", "E", "M", "E", "D", "I", "A", "T", "I", "O", "N", "_", "L", "O", "G", "I", "C">>,
                        StrV(remediation_logic))>>,
                 output_path, date)

\* The result of a pair is {"detection_script": ..., "remediation_script": ...}.

\* generate_intune_script_pair made atomic: both scripts are rendered first,
\* and the two files are written only when both can be; an error leaves the
\* file system as it was.
generate_intune_script_pair_atomic(fsys, description, detection_logic, remediation_logic, output_dir, date) ==
    LET d == generate_intune_detection_script(fsys, description, detection_logic, NoPath, date)
        r == generate_intune_remediation_script(fsys, description, remediation_logic, NoPath,
                                                date)
        e == ensure_directory(fsys, output_dir)
    IN  IF d.res.kind = "error" THEN d
        ELSE IF r.res.kind = "error" THEN r
        ELSE IF ~Truthy(output_dir) THEN Outcome(fsys, <<>>, [kind |-> "pair", detection_script |-> d.res, remediation_script |-> r.res])
        ELSE IF e.res.kind = "error" THEN e
        ELSE LET made == MakeDirs(e.fsys, e.res.path.parts)
                 detect_path == e.res.path.parts \o <<Comp("detect", "ps1")>>
                 remedy_path == e.res.path.parts \o <<Comp("remedy", "ps1")>>
             IN  IF CanWrite(made, detect_path) /\ CanWrite(made, remedy_path)
                 THEN Outcome(WriteFile(WriteFile(made, detect_path, d.res.text),
                                        remedy_path, r.res.text),
                              <<>>,
                              [kind |-> "pair",
                               detection_script |-> SavedTo(AbsPath(detect_path)),
                               remediation_script |-> SavedTo(AbsPath(remedy_path))])
                 ELSE Outcome(fsys, <<>>,
                              WriteError(made, IF CanWrite(made, detect_path)
                                               THEN remedy_path ELSE detect_path))

\* generate_intune_script_pair: with output_dir the directory is ensured and
\* made, and the two scripts go to detect.ps1 and remedy.ps1 in it; an error
\* of a step leaves the function with what was written before it.
generate_intune_script_pair(fsys, description, detection_logic, remediation_logic, output_dir, date) ==
    IF Truthy(output_dir)
    THEN LET e == ensure_directory(fsys, output_dir)
         IN  IF e.res.kind = "error" THEN e
             ELSE LET abs_output_dir == e.res.path.parts
                      detect_path == abs_output_dir \o <<Comp("detect", "ps1")>>
                      remedy_path == abs_output_dir \o <<Comp("remedy", "ps1")>>
                  IN  IF ~CanMakeDirs(e.fsys, abs_output_dir)
                      THEN Outcome(e.fsys, <<>>, Err("FileExistsError", FixedMsg("File exists")))
                      ELSE LET d == generate_intune_detection_script(
                                        MakeDirs(e.fsys, abs_output_dir), description,
                                        detection_logic, AbsPath(detect_path), date)
                           IN  IF d.res.kind = "error" THEN d
                               ELSE LET r == generate_intune_remediation_script(
                                                 d.fsys, description, remediation_logic,
                                                 AbsPath(remedy_path), date)
                                    IN  IF r.res.kind = "error" THEN r
                                        ELSE Outcome(r.fsys, <<>>, [kind |-> "pair", detection_script |-> d.res, remediation_script |-> r.res])
    ELSE LET d == generate_intune_detection_script(fsys, description, detection_logic,
                                                   NoPath, date)
         IN  IF d.res.kind = "error" THEN d
             ELSE LET r == generate_intune_remediation_script(d.fsys, description,
                                                              remediation_logic, NoPath, date)
                  IN  IF r.res.kind = "error" THEN r
                      ELSE Outcome(r.fsys, <<>>, [kind |-> "pair", detection_script |-> d.res, remediation_script |-> r.res])

\* f"Template '{template_name}' not found"
NotFoundQuotedMsg(name) == [tag |-> "not_found_quoted", s |-> name, t |-> <<>>, n |-> 0]

\* get_powershell_template(template_name): the text of the template file.
get_powershell_template(fsys, template_name) ==
    LET template_path == TemplatePath(template_name)
    IN  IF ~Exists(fsys, template_path)
        THEN Outcome(fsys, <<>>, Err("ValueError", NotFoundQuotedMsg(template_name)))
        ELSE IF IsDir(fsys, template_path)
        THEN Outcome(fsys, <<>>, Err("IsADirectoryError", FixedMsg("Is a directory")))
        ELSE Outcome(fsys, <<>>, Text(fsys.files[template_path]))

\* list_templates(): the names of the .ps1 files of the templates directory
\* (the description read from the head of each file is left out).
list_templates(fsys) ==
    LET names == IF ~Exists(fsys, TEMPLATES_DIR)
                 THEN {}
                 ELSE {f[Len(f)].stem : f \in {g \in DOMAIN fsys.files \cup fsys.dirs :
                           g # <<>> /\ Front(g) = TEMPLATES_DIR /\ g[Len(g)].ext = "ps1"}}
    IN  Outcome(fsys, <<>>, [kind |-> "list", names |-> names])

\* ------------------------------------------------------------------ state

VARIABLES
    req,        \* req[i]: the request of invocation i (fn = "none": not called yet)
    pc,         \* pc[i]: where invocation i stands in its function
    proc,       \* proc[i]: the child process of invocation i
    captured,   \* captured[i]: (stdout, stderr) as returned by communicate()
    pending,    \* pending[i]: the result or error the function is about to deliver
    sup,        \* sup[i]: lifecycle state of the process supervision
    spy,        \* spy[i]: what the invocation has done so far (checks, spawns, kills)
    delivered,  \* delivered[i]: the outcomes the caller has received, in order
    fsys,       \* the file system: the catalog, the directories, the files written
    pmap,       \* the placeholder map object the caller holds
    today,      \* the date of the day, as strftime('%Y-%m-%d') gives it
    last,       \* the last template operation: its arguments and its result
    prev,       \* the template operation before the last one
    nops        \* the number of template operations so far

\* The state of the execution gateway, and the state of the templates.
tvars == <<fsys, pmap, today, last, prev, nops>>

vars == <<req, pc, proc, captured, pending, sup, spy, delivered,
          fsys, pmap, today, last, prev, nops>>

NoRequest == [fn |-> "none", ctx |-> "none", name |-> "none", isstr |-> TRUE,
              code |-> <<>>, timeout |-> IntT(DefaultTimeout),
              args |-> [texts |-> <<>>, assembled |-> <<>>]]
NoProcess == [status |-> "none", rc |-> 0, out |-> <<>>, err |-> <<>>, reaped |-> FALSE]
NoCapture == [stdout |-> <<>>, stderr |-> <<>>]
NoSpy == [timeoutOk |-> FALSE, validated |-> <<>>, spawned |-> <<>>, kills |-> 0,
          timedOut |-> FALSE, obsRaised |-> FALSE]

\* The dates of two days that follow each other.
Dates == <<<<"2", "0", "2", "6", "-", "1", "1", "-", "0", "2">>,
           <<"2", "0", "2", "6", "-", "1", "1", "-", "0", "3">>>>

\* The record of a template operation: what was called and with what (for a
\* render: the map as it was passed, and whether it was the object the caller
\* holds), the file system before it, the date, the result and the map after.
OpRecord(op, name, out, arg, reused, before, date, o) ==
    [op |-> op, name |-> name, out |-> out, arg |-> arg, reused |-> reused,
     before |-> before, date |-> date, res |-> o.res, after |-> o.map]

Init ==
    /\ req = [i \in Inv |-> NoRequest]
    /\ pc = [i \in Inv |-> "idle"]
    /\ proc = [i \in Inv |-> NoProcess]
    /\ captured = [i \in Inv |-> NoCapture]
    /\ pending = [i \in Inv |-> NoOutcome]
    /\ sup = [i \in Inv |-> "Created"]
    /\ spy = [i \in Inv |-> NoSpy]
    /\ delivered = [i \in Inv |-> <<>>]
    /\ fsys = InitialFileSystem
    /\ pmap = <<>>
    /\ today = Dates[1]
    /\ last = OpRecord("none", "", NoPath, <<>>, FALSE, InitialFileSystem, Dates[1],
                       Outcome(InitialFileSystem, <<>>, [kind |-> "none"]))
    /\ prev = last
    /\ nops = 0

HasCtx(i) == req[i].ctx # "none"

\* ------------------------------------------------------- shared step parts

Goto(i, l) == pc' = [pc EXCEPT ![i] = l]

\* The function returns t or raises e: the caller receives the outcome.
Deliver(i, o) ==
    /\ delivered' = [delivered EXCEPT ![i] = Append(@, o)]
    /\ pc' = [pc EXCEPT ![i] = "done"]

\* asyncio.create_subprocess_exec("powershell", ..., "-Command", code) returned.
Spawned(i) ==
    /\ proc' = [proc EXCEPT ![i] = [NoProcess EXCEPT !.status = "running"]]
    /\ spy' = [spy EXCEPT ![i].spawned = Append(@, req[i].code)]
    /\ sup' = [sup EXCEPT ![i] = "Running"]

\* Communicated without the wait for the exit: what the pipes hold so far is taken.
CommunicatedEarly(i) ==
    /\ proc[i].status \in {"running", "exited"}
    /\ captured' = [captured EXCEPT ![i] = [stdout |-> proc[i].out, stderr |-> proc[i].err]]
    /\ proc' = [proc EXCEPT ![i].reaped = (proc[i].status = "exited")]
    /\ sup' = [sup EXCEPT ![i] = "Completed"]

\* communicate() returned: the process has exited and has been waited for.
Communicated(i) ==
    /\ proc[i].status = "exited"
    /\ captured' = [captured EXCEPT ![i] = [stdout |-> proc[i].out, stderr |-> proc[i].err]]
    /\ proc' = [proc EXCEPT ![i].reaped = TRUE]
    /\ sup' = [sup EXCEPT ![i] = "Completed"]

\* wait_for() raised asyncio.TimeoutError: the deadline fired first.
DeadlineFired(i) ==
    /\ sup' = [sup EXCEPT ![i] = "TimedOut"]
    /\ spy' = [spy EXCEPT ![i].timedOut = TRUE]

\* Killed with the process handle kept in a variable all invocations share:
\* the kill reaches every process that is running.
KilledShared(i) ==
    /\ proc' = [j \in Inv |-> [proc[j] EXCEPT !.status = IF @ = "running" THEN "killed" ELSE @]]
    /\ spy' = [spy EXCEPT ![i].kills = @ + 1]

\* process.kill(): one hard kill, not waited for.
Killed(i) ==
    /\ proc' = [proc EXCEPT ![i].status = IF @ = "running" THEN "killed" ELSE @]
    /\ spy' = [spy EXCEPT ![i].kills = @ + 1]

\* ------------------------------------------------------------ the requests

\* A caller invokes tool fn with its arguments; a timeout left out takes the
\* default of the signature.
Call(i, Fns, Ctxs) ==
    /\ pc[i] = "idle"
    /\ \E fn \in Fns, c \in Ctxs, code \in Texts, t \in TimeoutArgs,
          name \in {"run_powershell", "other"}, isstr \in BOOLEAN :
        /\ fn # "handle_tool_call" =>
              name = "run_powershell" /\ isstr
        /\ fn = "handle_tool_call" =>
              c = "none" /\ (~isstr => code = <<>>) /\ (name = "other" => code = <<>> /\ isstr)
        /\ req' = [req EXCEPT ![i] = [fn |-> fn, ctx |-> c, name |-> name, isstr |-> isstr,
                                      code |-> code, timeout |-> t,
                                      args |-> [texts |-> <<>>, assembled |-> <<>>]]]
        /\ pc' = [pc EXCEPT ![i] =
                    CASE fn = "run_powershell" -> "rp_info"
                      [] fn = "run_powershell_with_progress" -> "pw_entry"
                      [] fn = "handle_tool_call" -> "ht_name"]
    /\ UNCHANGED <<proc, captured, pending, sup, spy, delivered>>
    /\ UNCHANGED tvars

\* --------------------------------------------- server.py: run_powershell

run_powershell(i) ==
    /\ pc[i] = "rp_info"
    /\ Goto(i, "ep_timeout")
    /\ UNCHANGED <<req, proc, captured, pending, sup, spy, delivered>>
    /\ UNCHANGED tvars

\* ------------------------------------- server.py: the structured queries

\* The suffix is added even when the text ends with it in another letter case:
\* the test is made on code.strip() instead of code.strip().lower().
format_json_output_case_sensitive(code) ==
    LET Inked == {k \in 1..Len(code) : code[k] \notin Whitespace}
        stripped == IF Inked = {} THEN <<>>
                    ELSE SubSeq(code, CHOOSE a \in Inked : \A k \in Inked : a <= k,
                                      CHOOSE b \in Inked : \A k \in Inked : k <= b)
        suffix == <<"|", " ", "c", "o", "n", "v", "e", "r", "t", "t", "o", "-", "j", "s", "o", "n">>
        endswith == /\ Len(stripped) >= Len(suffix)
                    /\ SubSeq(stripped, Len(stripped) - Len(suffix) + 1, Len(stripped)) = suffix
    IN  IF ~endswith THEN code \o <<" ", "|", " ", "C", "o", "n", "v", "e", "r", "t", "T", "o", "-", "J", "s", "o", "n">> ELSE code

\* format_json_output(code): " | ConvertTo-Json" is added unless
\* code.strip().lower() ends with '| convertto-json'.
format_json_output(code) ==
    LET Inked == {k \in 1..Len(code) : code[k] \notin Whitespace}
        stripped == IF Inked = {} THEN <<>>
                    ELSE SubSeq(code, CHOOSE a \in Inked : \A k \in Inked : a <= k,
                                      CHOOSE b \in Inked : \A k \in Inked : k <= b)
        lowered == [k \in 1..Len(stripped) |-> Lower(stripped[k])]
        suffix == <<"|", " ", "c", "o", "n", "v", "e", "r", "t", "t", "o", "-", "j", "s", "o", "n">>
        endswith == /\ Len(lowered) >= Len(suffix)
                    /\ SubSeq(lowered, Len(lowered) - Len(suffix) + 1, Len(lowered)) = suffix
    IN  IF ~endswith THEN code \o <<" ", "|", " ", "C", "o", "n", "v", "e", "r", "t", "T", "o", "-", "J", "s", "o", "n">> ELSE code

\* Each query assembles its command from its arguments and hands
\* format_json_output(code) to execute_powershell: assembled is the command,
\* handed the text execute_powershell receives. An argument left out (None)
\* is the empty text or 0, which the tests of the code treat alike.

\* get_system_info(properties): properties is a list of texts.
get_system_info(properties) ==
    LET RECURSIVE join(_)
        join(ps) == IF Len(ps) = 1 THEN ps[1] ELSE ps[1] \o <<",">> \o join(Tail(ps))
        code == IF properties # <<>>
                THEN <<"G", "e", "t", "-", "C", "o", "m", "p", "u", "t", "e", "r", "I", "n", "f", "o">> \o <<" ", "-", "P", "r", "o", "p", "e", "r", "t", "y", " ">>
                     \o join(properties)
                ELSE <<"G", "e", "t", "-", "C", "o", "m", "p", "u", "t", "e", "r", "I", "n", "f", "o">>
    IN  [assembled |-> code, handed |-> format_json_output(code)]

get_running_services(name, status) ==
    LET filters == (IF name # <<>>
                    THEN <<<<"N", "a", "m", "e", " ", "-", "l", "i", "k", "e", " ", "'">>
                           \o name \o <<"'">> >>
                    ELSE <<>>)
                   \o (IF status # <<>>
                       THEN <<<<"S", "t", "a", "t", "u", "s", " ", "-", "e", "q", " ", "'">>
                              \o status \o <<"'">> >>
                       ELSE <<>>)
        and == <<" ", "-", "a", "n", "d", " ">>
        code == (IF filters # <<>>
                 THEN <<"G", "e", "t", "-", "S", "e", "r", "v", "i", "c", "e">>
                      \o <<" ", "|", " ", "W", "h", "e", "r", "e", "-", "O", "b", "j", "e", "c", "t", " ", "{", " ">>
                      \o (IF Len(filters) = 1 THEN filters[1] ELSE filters[1] \o and \o filters[2])
                      \o <<" ", "}">>
                 ELSE <<"G", "e", "t", "-", "S", "e", "r", "v", "i", "c", "e">>)
                \o <<" ", "|", " ", "S", "e", "l", "e", "c", "t", "-", "O", "b", "j", "e", "c", "t", " ", "N", "a", "m", "e", ",", " ">>
                \o <<"D", "i", "s", "p", "l", "a", "y", "N", "a", "m", "e", ",", " ", "S", "t", "a", "t", "u", "s", ",", " ", "S", "t", "a", "r", "t", "T", "y", "p", "e">>
    IN  [assembled |-> code, handed |-> format_json_output(code)]

get_processes(name, top, sort_by) ==
    LET c1 == IF name # <<>>
              THEN <<"G", "e", "t", "-", "P", "r", "o", "c", "e", "s", "s">>
                   \o <<" ", "-", "N", "a", "m", "e", " ", "'">> \o name \o <<"'">>
              ELSE <<"G", "e", "t", "-", "P", "r", "o", "c", "e", "s", "s">>
        c2 == IF sort_by # <<>>
              THEN c1 \o <<" ", "|", " ", "S", "o", "r", "t", "-", "O", "b", "j", "e", "c", "t", " ", "-", "P", "r", "o", "p", "e", "r", "t", "y", " ">>
                      \o sort_by \o <<" ", "-", "D", "e", "s", "c", "e", "n", "d", "i", "n", "g">>
              ELSE c1
        c3 == IF top # 0
              THEN c2 \o <<" ", "|", " ", "S", "e", "l", "e", "c", "t", "-", "O", "b", "j", "e", "c", "t", " ", "-", "F", "i", "r", "s", "t", " ">>
                      \o IntStr(top)
              ELSE c2
        code == c3 \o <<" ", "|", " ", "S", "e", "l", "e", "c", "t", "-", "O", "b", "j", "e", "c", "t", " ", "N", "a", "m", "e", ",", " ", "I", "d", ",", " ">>
                   \o <<"C", "P", "U", ",", " ", "W", "o", "r", "k", "i", "n", "g", "S", "e", "t", ",", " ", "S", "t", "a", "r", "t", "T", "i", "m", "e">>
    IN  [assembled |-> code, handed |-> format_json_output(code)]

get_event_logs(logname, newest, level) ==
    LET c1 == <<"G", "e", "t", "-", "E", "v", "e", "n", "t", "L", "o", "g", " ", "-", "L", "o", "g", "N", "a", "m", "e", " ">>
              \o logname \o <<" ", "-", "N", "e", "w", "e", "s", "t", " ">> \o IntStr(newest)
        c2 == IF level # 0
              THEN c1 \o <<" ", "|", " ", "W", "h", "e", "r", "e", "-", "O", "b", "j", "e", "c", "t", " ", "{", " ">>
                      \o <<"$", "_", ".", "E", "n", "t", "r", "y", "T", "y", "p", "e", " ", "-", "e", "q", " ">> \o IntStr(level) \o <<" ", "}">>
              ELSE c1
        code == c2 \o <<" ", "|", " ", "S", "e", "l", "e", "c", "t", "-", "O", "b", "j", "e", "c", "t", " ", "T", "i", "m", "e", "G", "e", "n", "e", "r", "a", "t", "e", "d", ",", " ">>
                   \o <<"E", "n", "t", "r", "y", "T", "y", "p", "e", ",", " ", "S", "o", "u", "r", "c", "e", ",", " ", "M", "e", "s", "s", "a", "g", "e">>
    IN  [assembled |-> code, handed |-> format_json_output(code)]

\* A caller invokes one of the four queries (none of them takes an observer):
\* the query hands its text and the timeout to execute_powershell. The
\* caller's texts are kept with the request.
QueryCall(i) ==
    /\ pc[i] = "idle"
    /\ \E t \in {IntT(DefaultTimeout), IntT(MaxTimeout + 1)} :
       \E c \in {[fn |-> "get_system_info", texts |-> ps, o |-> get_system_info(ps)] :
                    ps \in {<<>>,
                            <<<<"O", "s", "N", "a", "m", "e">>, <<"C", "s", "N", "a", "m", "e">>>>,
                            <<<<"O", "s", "N", "a", "m", "e", " ", "|", " ", "C", "O", "N", "V", "E", "R", "T", "t", "o", "-", "j", "s", "o", "n", "\n">>>>,
                            <<<<"O", "s", "N", "a", "m", "e", " ", "|", " ", "C", "o", "n", "v", "e", "r", "t", "T", "o", "-", "J", "s", "o", "n", " ", "|", " ", "C", "o", "n", "v", "e", "r", "t", "T", "o", "-", "J", "s", "o", "n">>>>,
                            <<<<"O", "s", "N", "a", "m", "e", ";", " ", "i", "E", "x", " ", "a">>>>}}
            \cup {[fn |-> "get_running_services", texts |-> a, o |-> get_running_services(a[1], a[2])] :
                    a \in {<<<<>>, <<>>>>,
                           <<<<"w", "*">>, <<"R", "u", "n", "n", "i", "n", "g">>>>,
                           <<<<>>, <<"x", "'", ";", " ", "n", "e", "t", " ", " ", "u", "s", "e", "r", " ", "a", " ", "'">>>>}}
            \cup {[fn |-> "get_processes", texts |-> <<a[1], a[3]>>, o |-> get_processes(a[1], a[2], a[3])] :
                    a \in {<<<<>>, 0, <<>>>>,
                           <<<<"p">>, 5, <<"C", "P", "U">>>>,
                           <<<<>>, 0, <<"C", "P", "U", ";", " ", "r", "m", " ", "-", "r", " ", "/">>>>}}
            \cup {[fn |-> "get_event_logs", texts |-> <<a[1]>>, o |-> get_event_logs(a[1], a[2], a[3])] :
                    a \in {<<<<"S", "y", "s", "t", "e", "m">>, 10, 0>>,
                           <<<<"S", "y", "s", "t", "e", "m">>, 2, 1>>,
                           <<<<"S", "y", "s", "t", "e", "m", ";", " ", "F", "O", "R", "M", "A", "T", " ", "c", ":">>, 10, 0>>}} :
        /\ req' = [req EXCEPT ![i] = [fn |-> c.fn, ctx |-> "none", name |-> "run_powershell",
                                      isstr |-> TRUE, code |-> c.o.handed, timeout |-> t,
                                      args |-> [texts |-> c.texts, assembled |-> c.o.assembled]]]
        /\ Goto(i, "ep_timeout")
    /\ UNCHANGED <<proc, captured, pending, sup, spy, delivered>>
    /\ UNCHANGED tvars

\* ------------------------------------------ server.py: execute_powershell

ep_CheckTimeout(i) ==
    /\ pc[i] = "ep_timeout"
    /\ IF TimeoutValid(req[i].timeout)
       THEN /\ Goto(i, "ep_validate")
            /\ spy' = [spy EXCEPT ![i].timeoutOk = TRUE]
            /\ UNCHANGED delivered
       ELSE /\ Deliver(i, Err("ValueError", TimeoutRangeMsg))
            /\ UNCHANGED spy
    /\ UNCHANGED <<req, proc, captured, pending, sup>>
    /\ UNCHANGED tvars

\* Only the first stage of the pipeline (the text before the first "|") is
\* validated: the command is checked before the filters are added to it.
ep_ValidateFirstStage(i) ==
    /\ pc[i] = "ep_validate"
    /\ LET Bars == {k \in 1..Len(req[i].code) : req[i].code[k] = "|"}
           stage == IF Bars = {} THEN req[i].code
                    ELSE SubSeq(req[i].code, 1, (CHOOSE b \in Bars : \A k \in Bars : b <= k) - 1)
       IN  IF validate_powershell_code(stage)
           THEN /\ Goto(i, "ep_info")
                /\ spy' = [spy EXCEPT ![i].validated = Append(@, stage)]
                /\ UNCHANGED delivered
           ELSE /\ Deliver(i, Err("ValueError", DangerousMsg))
                /\ UNCHANGED spy
    /\ UNCHANGED <<req, proc, captured, pending, sup>>
    /\ UNCHANGED tvars

ep_Validate(i) ==
    /\ pc[i] = "ep_validate"
    /\ IF validate_powershell_code(req[i].code)
       THEN /\ Goto(i, "ep_info")
            /\ spy' = [spy EXCEPT ![i].validated = Append(@, req[i].code)]
            /\ UNCHANGED delivered
       ELSE /\ Deliver(i, Err("ValueError", DangerousMsg))
            /\ UNCHANGED spy
    /\ UNCHANGED <<req, proc, captured, pending, sup>>
    /\ UNCHANGED tvars

\* ep_InfoStarting without the test of ctx: ctx.info(...) is called on None.
ep_InfoStartingUnguarded(i) ==
    /\ pc[i] = "ep_info"
    /\ IF HasCtx(i)
       THEN Goto(i, "ep_spawn") /\ UNCHANGED delivered
       ELSE Deliver(i, Err("AttributeError", FixedMsg("'NoneType' object has no attribute 'info'")))
    /\ UNCHANGED <<req, proc, captured, pending, sup, spy>>
    /\ UNCHANGED tvars

\* if ctx: ctx.info("Validating PowerShell code..."), ctx.info("Starting ...")
ep_InfoStarting(i) ==
    /\ pc[i] = "ep_info"
    /\ Goto(i, "ep_spawn")
    /\ UNCHANGED <<req, proc, captured, pending, sup, spy, delivered>>
    /\ UNCHANGED tvars

ep_Spawn(i) ==
    /\ pc[i] = "ep_spawn"
    /\ \/ /\ Spawned(i)
          /\ Goto(i, "ep_try")
          /\ UNCHANGED delivered
       \/ /\ sup' = [sup EXCEPT ![i] = "SpawnError"]
          /\ Deliver(i, Err("OSError", FixedMsg("powershell could not be started")))
          /\ UNCHANGED <<proc, spy>>
    /\ UNCHANGED <<req, captured, pending>>
    /\ UNCHANGED tvars

\* try: if ctx: ctx.info("Executing command...")
ep_InfoExecuting(i) ==
    /\ pc[i] = "ep_try"
    /\ Goto(i, "ep_wait")
    /\ UNCHANGED <<req, proc, captured, pending, sup, spy, delivered>>
    /\ UNCHANGED tvars

ep_WaitDone(i) ==
    /\ pc[i] = "ep_wait"
    /\ Communicated(i)
    /\ Goto(i, "ep_returncode")
    /\ UNCHANGED <<req, pending, spy, delivered>>
    /\ UNCHANGED tvars

\* ep_WaitTimeout without a deadline: communicate() awaited without wait_for.
ep_WaitNoDeadline(i) ==
    /\ pc[i] = "ep_wait"
    /\ FALSE
    /\ UNCHANGED vars

ep_WaitTimeout(i) ==
    /\ pc[i] = "ep_wait"
    /\ DeadlineFired(i)
    /\ Goto(i, "ep_kill")
    /\ UNCHANGED <<req, proc, captured, pending, delivered>>
    /\ UNCHANGED tvars

\* ep_Kill in two stages: process.terminate(), then process.kill().
ep_TerminateThenKill(i) ==
    /\ pc[i] = "ep_kill"
    /\ proc' = [proc EXCEPT ![i].status = IF @ = "running" THEN "killed" ELSE @]
    /\ spy' = [spy EXCEPT ![i].kills = @ + 2]
    /\ Goto(i, "ep_timeout_raise")
    /\ UNCHANGED <<req, captured, pending, sup, delivered>>
    /\ UNCHANGED tvars

ep_Kill(i) ==
    /\ pc[i] = "ep_kill"
    /\ Killed(i)
    /\ Goto(i, "ep_timeout_raise")
    /\ UNCHANGED <<req, captured, pending, sup, delivered>>
    /\ UNCHANGED tvars

\* ep_RaiseTimeout returning what the process had written when it was killed.
ep_RaiseTimeoutPartial(i) ==
    /\ pc[i] = "ep_timeout_raise"
    /\ Deliver(i, Text(IF Utf8Valid(proc[i].out) THEN decode(proc[i].out) ELSE <<>>))
    /\ UNCHANGED <<req, proc, captured, pending, sup, spy>>
    /\ UNCHANGED tvars

\* ep_RaiseTimeout starting the command again instead of raising.
ep_RetryAfterTimeout(i) ==
    /\ pc[i] = "ep_timeout_raise"
    /\ Goto(i, "ep_spawn")
    /\ UNCHANGED <<req, proc, captured, pending, sup, spy, delivered>>
    /\ UNCHANGED tvars

\* if ctx: ctx.error(...); raise TimeoutError(...)
ep_RaiseTimeout(i) ==
    /\ pc[i] = "ep_timeout_raise"
    /\ Deliver(i, Err("TimeoutError", TimedOutMsg(req[i].timeout)))
    /\ UNCHANGED <<req, proc, captured, pending, sup, spy>>
    /\ UNCHANGED tvars

\* The error of a non-zero return code, or the result of return code 0,
\* before it is reported to ctx; decode() raises on bytes that are not UTF-8.
ep_ReturnCode(i) ==
    /\ pc[i] = "ep_returncode"
    /\ LET bs == IF proc[i].rc # 0 THEN captured[i].stderr ELSE captured[i].stdout
       IN  IF bs # <<>> /\ ~Utf8Valid(bs)
           THEN /\ Deliver(i, Err("UnicodeDecodeError", FixedMsg("invalid start byte")))
                /\ UNCHANGED pending
           ELSE /\ pending' = [pending EXCEPT ![i] =
                      IF proc[i].rc # 0
                      THEN Err("RuntimeError",
                               IF bs # <<>> THEN TextMsg(decode(bs)) ELSE NoErrorOutputMsg)
                      ELSE Text(IF bs # <<>> THEN decode(bs) ELSE <<>>)]
                /\ Goto(i, "ep_report")
                /\ UNCHANGED delivered
    /\ UNCHANGED <<req, proc, captured, sup, spy>>
    /\ UNCHANGED tvars

\* if ctx: ctx.error(...) / ctx.info(...); raise RuntimeError(error_msg) / return result
ep_Finish(i) ==
    /\ pc[i] = "ep_report"
    /\ Deliver(i, pending[i])
    /\ UNCHANGED <<req, proc, captured, pending, sup, spy>>
    /\ UNCHANGED tvars

execute_powershell(i) ==
    \/ ep_CheckTimeout(i)
    \/ ep_Validate(i)
    \/ ep_InfoStarting(i)
    \/ ep_Spawn(i)
    \/ ep_InfoExecuting(i)
    \/ ep_WaitDone(i)
    \/ ep_WaitTimeout(i)
    \/ ep_Kill(i)
    \/ ep_RaiseTimeout(i)
    \/ ep_ReturnCode(i)
    \/ ep_Finish(i)

\* -------------------------------- server.py: run_powershell_with_progress

\* An error raised inside the try block reaches the handler "except Exception".
pw_Raise(i, e) ==
    /\ pending' = [pending EXCEPT ![i] = e]
    /\ Goto(i, "pw_except")

\* if not ctx: return await execute_powershell(code, timeout)
pw_Entry(i) ==
    /\ pc[i] = "pw_entry"
    /\ Goto(i, IF HasCtx(i) THEN "pw_info" ELSE "ep_timeout")
    /\ UNCHANGED <<req, proc, captured, pending, sup, spy, delivered>>
    /\ UNCHANGED tvars

pw_InfoValidating(i) ==
    /\ pc[i] = "pw_info"
    /\ Goto(i, "pw_timeout")
    /\ UNCHANGED <<req, proc, captured, pending, sup, spy, delivered>>
    /\ UNCHANGED tvars

pw_CheckTimeout(i) ==
    /\ pc[i] = "pw_timeout"
    /\ IF TimeoutValid(req[i].timeout)
       THEN /\ Goto(i, "pw_validate")
            /\ spy' = [spy EXCEPT ![i].timeoutOk = TRUE]
            /\ UNCHANGED pending
       ELSE /\ pw_Raise(i, Err("ValueError", TimeoutRangeMsg))
            /\ UNCHANGED spy
    /\ UNCHANGED <<req, proc, captured, sup, delivered>>
    /\ UNCHANGED tvars

pw_Validate(i) ==
    /\ pc[i] = "pw_validate"
    /\ IF validate_powershell_code(req[i].code)
       THEN /\ Goto(i, "pw_info2")
            /\ spy' = [spy EXCEPT ![i].validated = Append(@, req[i].code)]
            /\ UNCHANGED pending
       ELSE /\ pw_Raise(i, Err("ValueError", DangerousMsg))
            /\ UNCHANGED spy
    /\ UNCHANGED <<req, proc, captured, sup, delivered>>
    /\ UNCHANGED tvars

\* ctx.info("Code validation passed"), ctx.info("Starting ..."), report_progress(0, 4)
pw_InfoStarting(i) ==
    /\ pc[i] = "pw_info2"
    /\ Goto(i, "pw_spawn")
    /\ UNCHANGED <<req, proc, captured, pending, sup, spy, delivered>>
    /\ UNCHANGED tvars

pw_Spawn(i) ==
    /\ pc[i] = "pw_spawn"
    /\ \/ /\ Spawned(i)
          /\ Goto(i, "pw_progress")
          /\ UNCHANGED pending
       \/ /\ sup' = [sup EXCEPT ![i] = "SpawnError"]
          /\ pw_Raise(i, Err("OSError", FixedMsg("powershell could not be started")))
          /\ UNCHANGED <<proc, spy>>
    /\ UNCHANGED <<req, captured, delivered>>
    /\ UNCHANGED tvars

\* ctx.report_progress(1, 4, "Process created, executing command")
pw_ProgressCreated(i) ==
    /\ pc[i] = "pw_progress"
    /\ Goto(i, "pw_wait")
    /\ UNCHANGED <<req, proc, captured, pending, sup, spy, delivered>>
    /\ UNCHANGED tvars

pw_WaitDone(i) ==
    /\ pc[i] = "pw_wait"
    /\ Communicated(i)
    /\ Goto(i, "pw_returncode")
    /\ UNCHANGED <<req, pending, spy, delivered>>
    /\ UNCHANGED tvars

pw_WaitTimeout(i) ==
    /\ pc[i] = "pw_wait"
    /\ DeadlineFired(i)
    /\ Goto(i, "pw_kill")
    /\ UNCHANGED <<req, proc, captured, pending, delivered>>
    /\ UNCHANGED tvars

pw_Kill(i) ==
    /\ pc[i] = "pw_kill"
    /\ Killed(i)
    /\ Goto(i, "pw_timeout_raise")
    /\ UNCHANGED <<req, captured, pending, sup, delivered>>
    /\ UNCHANGED tvars

\* ctx.error(...); raise TimeoutError(...)
pw_RaiseTimeout(i) ==
    /\ pc[i] = "pw_timeout_raise"
    /\ pw_Raise(i, Err("TimeoutError", TimedOutMsg(req[i].timeout)))
    /\ UNCHANGED <<req, proc, captured, sup, spy, delivered>>
    /\ UNCHANGED tvars

\* The text returned on success: the output between a header and the
\* execution metadata, or the "no output" form when result.strip() is empty.
pw_Format(result) ==
    IF \E k \in 1..Len(result) : result[k] \notin Whitespace
    THEN <<"--- PowerShell Output ---\n">> \o result
             \o <<"\n--- Execution Metadata ---\n", "{metadata}">>
    ELSE <<"--- No Output Produced ---\n--- Execution Metadata ---\n", "{metadata}">>

\* report_progress(3, 4); then the error of a non-zero return code or the result
pw_ReturnCode(i) ==
    /\ pc[i] = "pw_returncode"
    /\ LET bs == IF proc[i].rc # 0 THEN captured[i].stderr ELSE captured[i].stdout
       IN  IF bs # <<>> /\ ~Utf8Valid(bs)
           THEN pw_Raise(i, Err("UnicodeDecodeError", FixedMsg("invalid start byte")))
           ELSE /\ pending' = [pending EXCEPT ![i] =
                      IF proc[i].rc # 0
                      THEN Err("RuntimeError",
                               IF bs # <<>> THEN TextMsg(decode(bs)) ELSE NoErrorOutputMsg)
                      ELSE Text(pw_Format(IF bs # <<>> THEN decode(bs) ELSE <<>>))]
                /\ Goto(i, "pw_report")
    /\ UNCHANGED <<req, proc, captured, sup, spy, delivered>>
    /\ UNCHANGED tvars

\* ctx.error(...); raise RuntimeError(error_msg)  /  report, info, info; return
pw_Finish(i) ==
    /\ pc[i] = "pw_report"
    /\ IF pending[i].kind = "error"
       THEN Goto(i, "pw_except") /\ UNCHANGED delivered
       ELSE Deliver(i, pending[i])
    /\ UNCHANGED <<req, proc, captured, pending, sup, spy>>
    /\ UNCHANGED tvars

\* except Exception as e: ctx.error(...); raise
pw_Except(i) ==
    /\ pc[i] = "pw_except"
    /\ Deliver(i, pending[i])
    /\ UNCHANGED <<req, proc, captured, pending, sup, spy>>
    /\ UNCHANGED tvars

run_powershell_with_progress(i) ==
    \/ pw_Entry(i)
    \/ pw_InfoValidating(i)
    \/ pw_CheckTimeout(i)
    \/ pw_Validate(i)
    \/ pw_InfoStarting(i)
    \/ pw_Spawn(i)
    \/ pw_ProgressCreated(i)
    \/ pw_WaitDone(i)
    \/ pw_WaitTimeout(i)
    \/ pw_Kill(i)
    \/ pw_RaiseTimeout(i)
    \/ pw_ReturnCode(i)
    \/ pw_Finish(i)
    \/ pw_Except(i)

\* ------------------------------------------------ run.py: handle_tool_call

\* An exception raised inside the try block reaches "except Exception as e".
ht_Raise(i, e) ==
    /\ pending' = [pending EXCEPT ![i] = e]
    /\ Goto(i, "ht_except")

ht_CheckName(i) ==
    /\ pc[i] = "ht_name"
    /\ IF req[i].name # "run_powershell"
       THEN Deliver(i, Err("MethodNotFound", FixedMsg("Unknown tool")))
       ELSE Goto(i, "ht_code") /\ UNCHANGED delivered
    /\ UNCHANGED <<req, proc, captured, pending, sup, spy>>
    /\ UNCHANGED tvars

ht_CheckCode(i) ==
    /\ pc[i] = "ht_code"
    /\ IF ~req[i].isstr
       THEN Deliver(i, Err("InvalidParams", FixedMsg("code parameter must be a string")))
       ELSE Goto(i, "ht_timeout") /\ UNCHANGED delivered
    /\ UNCHANGED <<req, proc, captured, pending, sup, spy>>
    /\ UNCHANGED tvars

ht_CheckTimeout(i) ==
    /\ pc[i] = "ht_timeout"
    /\ IF TimeoutValid(req[i].timeout)
       THEN /\ Goto(i, "ht_spawn")
            /\ spy' = [spy EXCEPT ![i].timeoutOk = TRUE]
            /\ UNCHANGED delivered
       ELSE /\ Deliver(i, Err("InvalidParams", TimeoutRangeMsg))
            /\ UNCHANGED spy
    /\ UNCHANGED <<req, proc, captured, pending, sup>>
    /\ UNCHANGED tvars

\* try: process = await asyncio.create_subprocess_exec(..., code, ...)
ht_Spawn(i) ==
    /\ pc[i] = "ht_spawn"
    /\ \/ /\ Spawned(i)
          /\ Goto(i, "ht_wait")
          /\ UNCHANGED pending
       \/ /\ sup' = [sup EXCEPT ![i] = "SpawnError"]
          /\ ht_Raise(i, Err("OSError", FixedMsg("powershell could not be started")))
          /\ UNCHANGED <<proc, spy>>
    /\ UNCHANGED <<req, captured, delivered>>
    /\ UNCHANGED tvars

ht_WaitDone(i) ==
    /\ pc[i] = "ht_wait"
    /\ Communicated(i)
    /\ Goto(i, "ht_returncode")
    /\ UNCHANGED <<req, pending, spy, delivered>>
    /\ UNCHANGED tvars

ht_WaitTimeout(i) ==
    /\ pc[i] = "ht_wait"
    /\ DeadlineFired(i)
    /\ Goto(i, "ht_kill")
    /\ UNCHANGED <<req, proc, captured, pending, delivered>>
    /\ UNCHANGED tvars

ht_Kill(i) ==
    /\ pc[i] = "ht_kill"
    /\ Killed(i)
    /\ Goto(i, "ht_timeout_raise")
    /\ UNCHANGED <<req, captured, pending, sup, delivered>>
    /\ UNCHANGED tvars

\* raise McpError(ErrorCode.Timeout, ...), from inside the except clause
ht_RaiseTimeout(i) ==
    /\ pc[i] = "ht_timeout_raise"
    /\ Deliver(i, Err("Timeout", TimedOutMsg(req[i].timeout)))
    /\ UNCHANGED <<req, proc, captured, pending, sup, spy>>
    /\ UNCHANGED tvars

\* A non-zero return code raises McpError(InternalError, stderr or sentinel)
\* inside the try block; return code 0 returns stdout as the text content.
\* The streams were opened with text=True: they hold text.
ht_ReturnCode(i) ==
    /\ pc[i] = "ht_returncode"
    /\ IF proc[i].rc # 0
       THEN /\ ht_Raise(i, Err("InternalError",
                               IF captured[i].stderr # <<>>
                               THEN TextMsg(locale_decode(captured[i].stderr))
                               ELSE NoErrorOutputMsg))
            /\ UNCHANGED delivered
       ELSE /\ Deliver(i, Text(locale_decode(captured[i].stdout)))
            /\ UNCHANGED pending
    /\ UNCHANGED <<req, proc, captured, sup, spy>>
    /\ UNCHANGED tvars

\* except Exception as e: raise McpError(ErrorCode.InternalError, str(e))
ht_Except(i) ==
    /\ pc[i] = "ht_except"
    /\ Deliver(i, Err("InternalError", pending[i].msg))
    /\ UNCHANGED <<req, proc, captured, pending, sup, spy>>
    /\ UNCHANGED tvars

handle_tool_call(i) ==
    \/ ht_CheckName(i)
    \/ ht_CheckCode(i)
    \/ ht_CheckTimeout(i)
    \/ ht_Spawn(i)
    \/ ht_WaitDone(i)
    \/ ht_WaitTimeout(i)
    \/ ht_Kill(i)
    \/ ht_RaiseTimeout(i)
    \/ ht_ReturnCode(i)
    \/ ht_Except(i)

\* ------------------------------------------------------ the child process

WaitPcs == {"ep_wait", "pw_wait", "ht_wait"}

\* The running process writes a byte to stdout or to stderr (both are pipes).
ProcWrite(i) ==
    /\ proc[i].status = "running"
    /\ \/ /\ Len(proc[i].out) < MaxOut
          /\ \E b \in StdoutBytes : proc' = [proc EXCEPT ![i].out = Append(@, b)]
       \/ /\ Len(proc[i].err) < MaxOut
          /\ \E b \in StderrBytes : proc' = [proc EXCEPT ![i].err = Append(@, b)]
    /\ UNCHANGED <<req, pc, captured, pending, sup, spy, delivered>>
    /\ UNCHANGED tvars

\* The running process exits with a return code.
ProcExit(i) ==
    /\ proc[i].status = "running"
    /\ \E rc \in {0, 1} : proc' = [proc EXCEPT ![i].status = "exited", ![i].rc = rc]
    /\ UNCHANGED <<req, pc, captured, pending, sup, spy, delivered>>
    /\ UNCHANGED tvars

\* The event loop reaps a process that has ended and that nobody waits for.
ChildReaped(i) ==
    /\ proc[i].status \in {"exited", "killed"}
    /\ ~proc[i].reaped
    /\ pc[i] \notin WaitPcs
    /\ proc' = [proc EXCEPT ![i].reaped = TRUE]
    /\ UNCHANGED <<req, pc, captured, pending, sup, spy, delivered>>
    /\ UNCHANGED tvars

\* ------------------------------------------------- an observer that raises

\* The places of execute_powershell (and run_powershell) where a ctx method is awaited.
ep_CtxCalled(i) ==
    /\ HasCtx(i)
    /\ pc[i] \in {"rp_info", "ep_info", "ep_try", "ep_timeout_raise", "ep_report"}

\* The places of run_powershell_with_progress where a ctx method is awaited.
pw_CtxCalled(i) ==
    \/ pc[i] \in {"pw_info", "pw_info2", "pw_progress", "pw_returncode",
                  "pw_timeout_raise", "pw_report", "pw_except"}
    \/ pc[i] = "pw_timeout" /\ ~TimeoutValid(req[i].timeout)
    \/ pc[i] = "pw_validate" /\ ~validate_powershell_code(req[i].code)

\* An awaited ctx method raises: execute_powershell has no handler for it
\* (its try catches asyncio.TimeoutError only), so the exception leaves it.
ep_ObserverRaises(i) ==
    /\ req[i].ctx = "faulty"
    /\ ep_CtxCalled(i)
    /\ spy' = [spy EXCEPT ![i].obsRaised = TRUE]
    /\ Deliver(i, Err("ObserverError", FixedMsg("ctx method raised")))
    /\ UNCHANGED <<req, proc, captured, pending, sup>>
    /\ UNCHANGED tvars

\* An awaited ctx method raises inside the try block of
\* run_powershell_with_progress, or inside its handler.
pw_ObserverRaises(i) ==
    /\ req[i].ctx = "faulty"
    /\ pw_CtxCalled(i)
    /\ spy' = [spy EXCEPT ![i].obsRaised = TRUE]
    /\ IF pc[i] = "pw_except"
       THEN /\ Deliver(i, Err("ObserverError", FixedMsg("ctx method raised")))
            /\ UNCHANGED pending
       ELSE /\ pw_Raise(i, Err("ObserverError", FixedMsg("ctx method raised")))
            /\ UNCHANGED delivered
    /\ UNCHANGED <<req, proc, captured, sup>>
    /\ UNCHANGED tvars

\* ------------------------------------------------- the template operations

\* The placeholder maps the callers pass.
ParamMaps == {
    <<Item(<<"A">>, StrV(<<"x">>))>>,
    <<Item(DATE, StrV(<<"c">>)), Item(<<"A">>, IntV(5))>>,
    <<Item(<<"A">>, StrV(<<"{", "{", "A", "}">>)), Item(<<"B">>, StrV(<<"}">>))>>,
    <<Item(<<"a">>, StrV(<<"y">>))>>,
    <<Item(<<"A">>, StrV(<<"{", "{", "B", "}", "}">>)), Item(<<"B">>, StrV(<<"z">>))>>,
    <<Item(<<"B">>, StrV(<<"z">>)), Item(<<"A">>, StrV(<<"{", "{", "B", "}", "}">>))>>,
    <<Item(<<"A">>, StrV(Marker(DATE)))>>,
    <<Item(DATE, StrV(<<"c">>)), Item(<<"A">>, StrV(Marker(DATE)))>> }

\* The texts the callers pass to the script generators.
Args == [description |-> <<"d">>, script_type |-> <<"t">>,
         detection_logic |-> <<"c", "h", "k">>, remediation_logic |-> <<"f", "i", "x">>]

\* An operation ran: its effect on the file system, and its record.
Ran(op, name, out, arg, reused, o) ==
    /\ nops < MaxOps
    /\ fsys' = o.fsys
    /\ last' = OpRecord(op, name, out, arg, reused, fsys, today, o)
    /\ prev' = last
    /\ nops' = nops + 1
    /\ UNCHANGED today
    /\ UNCHANGED <<req, pc, proc, captured, pending, sup, spy, delivered>>

\* A caller renders a template with a map of its own: a new one, or the
\* object it holds from its last call.  The output path is none, s.ps1,
\* new/s.ps1 or the file of template "two".  Template "two" is rendered with
\* every map, "adjacent" with the map of the partial markers, "missing" with
\* the first map or the map held; a path goes with the first map, and every
\* path with "two", s.ps1 with "missing".
Render ==
    \E name \in {"two", "adjacent", "missing"},
       out \in {NoPath, RelPath(<<Comp("s", "ps1")>>),
                RelPath(<<Comp("new", ""), Comp("s", "ps1")>>), AbsPath(TemplatePath("two"))},
       m \in ParamMaps \cup {pmap} :
        LET o == generate_script_from_template(fsys, name, m, out, today)
        IN  /\ out # NoPath =>
                  /\ m = <<Item(<<"A">>, StrV(<<"x">>))>>
                  /\ name = "two" \/ (name = "missing" /\ out = RelPath(<<Comp("s", "ps1")>>))
            /\ name = "adjacent" =>
                  m = <<Item(<<"A">>, StrV(<<"{", "{", "A", "}">>)), Item(<<"B">>, StrV(<<"}">>))>>
            /\ name = "missing" => m \in {<<Item(<<"A">>, StrV(<<"x">>))>>, pmap}
            /\ Ran("render", name, out, m, m = pmap, o)
            /\ pmap' = o.map

Custom ==
    \E out \in {NoPath, RelPath(<<Comp("new", ""), Comp("s", "ps1")>>)} :
        /\ Ran("custom", "", out, <<>>, FALSE,
               generate_custom_script(fsys, Args.description, Args.script_type, out, today))
        /\ UNCHANGED pmap

Detection ==
    \E out \in {NoPath, RelPath(<<Comp("new", ""), Comp("s", "ps1")>>),
                 RelPath(<<Comp("out", "")>>)} :
        /\ Ran("detection", "intune_detection", out, <<>>, FALSE,
               generate_intune_detection_script(fsys, Args.description, Args.detection_logic,
                                                out, today))
        /\ UNCHANGED pmap

Remediation ==
    \E out \in {NoPath, DotPath(<<Comp("new", ""), Comp("r", "ps1")>>)} :
        /\ Ran("remediation", "intune_remediation", out, <<>>, FALSE,
               generate_intune_remediation_script(fsys, Args.description,
                                                  Args.remediation_logic, out, today))
        /\ UNCHANGED pmap

Pair ==
    \E dir \in {NoPath, DotPath(<<Comp("out", "")>>), AbsPath(TEMPLATES_DIR)} :
        /\ Ran("pair", "", dir, <<>>, FALSE,
               generate_intune_script_pair(fsys, Args.description, Args.detection_logic,
                                           Args.remediation_logic, dir, today))
        /\ UNCHANGED pmap

\* ensure_directory is a tool of its own: for the file new/s.ps1, for the
\* empty path, and for a directory x inside out/remedy.ps1.
EnsureDirectory ==
    \E path \in {RelPath(<<Comp("new", ""), Comp("s", "ps1")>>), RelPath(<<>>),
                  RelPath(<<Comp("out", ""), Comp("remedy", "ps1"), Comp("x", "")>>)} :
        /\ Ran("ensure_directory", "", path, <<>>, FALSE, ensure_directory(fsys, path))
        /\ UNCHANGED pmap

Fetch ==
    \E name \in {"two", "missing"} :
        /\ Ran("fetch", name, NoPath, <<>>, FALSE, get_powershell_template(fsys, name))
        /\ UNCHANGED pmap

List ==
    /\ Ran("list", "", NoPath, <<>>, FALSE, list_templates(fsys))
    /\ UNCHANGED pmap

\* Midnight: the date of the day changes.
Midnight ==
    /\ today = Dates[1]
    /\ today' = Dates[2]
    /\ UNCHANGED <<fsys, pmap, last, prev, nops>>
    /\ UNCHANGED <<req, pc, proc, captured, pending, sup, spy, delivered>>

\* ---------------------------------------------------------- specifications

Tools == {"run_powershell", "run_powershell_with_progress", "handle_tool_call"}

\* The slots that receive requests when requests are issued one at a time.
Sequential == {1}

\* A step of the program in invocation i.
Program(i) ==
    \/ run_powershell(i)
    \/ execute_powershell(i)
    \/ run_powershell_with_progress(i)
    \/ handle_tool_call(i)

\* A step of the child process of invocation i.
Child(i) ==
    \/ ProcWrite(i)
    \/ ProcExit(i)
    \/ ChildReaped(i)

\* Observers (ctx) whose methods return: the observer interface as specified.
Next ==
    \E i \in Sequential :
        \/ Call(i, Tools, {"none", "ok"})
        \/ Program(i)
        \/ Child(i)

Spec == Init /\ [][Next]_vars

\* Observers whose methods may also raise.
NextObs ==
    \E i \in Sequential :
        \/ Call(i, Tools, {"none", "ok", "faulty"})
        \/ Program(i)
        \/ Child(i)
        \/ ep_ObserverRaises(i)
        \/ pw_ObserverRaises(i)

SpecObs == Init /\ [][NextObs]_vars

\* The scheduler runs every invocation that can take a step, and the
\* deadline timer of wait_for fires unless the wait has ended.
FairSpec == Spec /\ \A i \in Sequential : WF_vars(Program(i))

\* The template operations, one after the other.
TemplateNext ==
    \/ Render
    \/ Custom
    \/ Detection
    \/ Remediation
    \/ Pair
    \/ EnsureDirectory
    \/ Fetch
    \/ List
    \/ Midnight

TemplateSpec == Init /\ [][TemplateNext]_vars

\* Invocations in flight at the same time: every slot takes requests, and
\* the coroutines interleave at their awaits.  The requests and the output
\* of the processes are kept small: one clean and one deny-listed text, one
\* valid and one invalid timeout, at most one byte written by a process
\* (to its stdout).  The first slot is called without an observer, the
\* others with one.

ConcCall(i) ==
    /\ Call(i, {"run_powershell"}, IF i = 1 THEN {"none"} ELSE {"ok"})
    /\ req'[i].code \in {<<"G", "e", "t", "-", "D", "a", "t", "e">>, <<"i", "E", "x", " ", "a">>}
    /\ req'[i].timeout \in {IntT(MinTimeout), IntT(MinTimeout - 1)}

ConcWrite(i) ==
    /\ proc[i].out = <<>>
    /\ ProcWrite(i)
    /\ proc'[i].err = <<>>

ConcNext ==
    \E i \in Inv :
        \/ ConcCall(i)
        \/ run_powershell(i)
        \/ execute_powershell(i)
        \/ ConcWrite(i)
        \/ ProcExit(i)

ConcSpec == Init /\ [][ConcNext]_vars

\* The structured queries, one call at a time.
QueryNext ==
    \E i \in Sequential :
        \/ QueryCall(i)
        \/ execute_powershell(i)
        \/ Child(i)

QuerySpec == Init /\ [][QueryNext]_vars

\* ------------------------------------------------------------- the claims

Done(i) == pc[i] = "done"

\* The tools of server.py, which run execute_powershell or
\* run_powershell_with_progress.
ServerTool(i) == req[i].fn \in {"run_powershell", "run_powershell_with_progress"}

\* The request reaches the timeout check of its function (in handle_tool_call
\* the tool name and the type of code are checked before it).
ReachesTimeoutCheck(i) ==
    \/ ServerTool(i)
    \/ req[i].fn = "handle_tool_call" /\ req[i].name = "run_powershell" /\ req[i].isstr

\* The invocation has passed the parameter and validation checks of its function.
PassedChecks(i) ==
    \/ ServerTool(i) /\ spy[i].validated # <<>>
    \/ req[i].fn = "handle_tool_call" /\ spy[i].timeoutOk

\* C1: in execute_powershell and run_powershell_with_progress a command text
\* with a deny-listed pattern, in any letter case and with any timeout, ends
\* in an error and no process is ever spawned; a process is spawned only
\* after the timeout check and validate_powershell_code have both passed for
\* the text of that invocation.
C1_DenyListedNeverSpawns ==
    \A i \in Inv : ServerTool(i) =>
        /\ req[i].code \in DenyListedTexts =>
              /\ spy[i].spawned = <<>>
              /\ proc[i].status = "none"
              /\ Done(i) => Len(delivered[i]) = 1 /\ delivered[i][1].kind = "error"
        /\ spy[i].spawned # <<>> =>
              /\ spy[i].timeoutOk
              /\ spy[i].validated = <<req[i].code>>
              /\ req[i].code \notin DenyListedTexts

C1_Witness ==
    \E i \in Inv :
        /\ ServerTool(i) /\ Done(i)
        /\ req[i].code = <<"F", "O", "R", "M", "A", "T", " ", "c", ":">>
        /\ req[i].timeout = IntT(DefaultTimeout)
        /\ delivered[i] = <<Err("ValueError", DangerousMsg)>>

\* C2: a request is accepted past the parameter check iff its timeout is an
\* int with 1 <= t <= 300; any other value ends in the parameter error, and
\* the check comes before the deny-list validation and before the spawn, so
\* an out-of-range timeout with a deny-listed text gives the timeout error.
C2_TimeoutCheckedFirst ==
    \A i \in Inv : ReachesTimeoutCheck(i) =>
        LET t == req[i].timeout
            inRange == t.isint /\ t.n >= 1 /\ t.n <= 300
        IN  /\ spy[i].timeoutOk => inRange
            /\ (spy[i].validated # <<>> \/ spy[i].spawned # <<>>) => spy[i].timeoutOk
            /\ Done(i) /\ inRange => spy[i].timeoutOk
            /\ Done(i) /\ ~inRange =>
                  /\ Len(delivered[i]) = 1
                  /\ delivered[i][1].kind = "error"
                  /\ delivered[i][1].class \in {"ValueError", "InvalidParams"}
                  /\ delivered[i][1].msg = TimeoutRangeMsg
                  /\ spy[i].validated = <<>> /\ spy[i].spawned = <<>>

C2_Witness ==
    \E i \in Inv :
        /\ Done(i) /\ req[i].fn = "run_powershell"
        /\ req[i].code \in DenyListedTexts
        /\ req[i].timeout = IntT(MaxTimeout + 1)
        /\ delivered[i] = <<Err("ValueError", TimeoutRangeMsg)>>

\* C3: when the deadline fires before the wait for the process ends, the
\* invocation ends with the timeout error and delivers no stdout content,
\* whatever the process had written before it was killed.
C3_TimeoutReturnsNoOutput ==
    \A i \in Inv : spy[i].timedOut =>
        /\ pending[i].kind # "text"
        /\ Done(i) => Len(delivered[i]) = 1
        /\ \A k \in 1..Len(delivered[i]) :
              /\ delivered[i][k].kind = "error"
              /\ delivered[i][k].class \in {"TimeoutError", "Timeout"}
              /\ delivered[i][k].msg = TimedOutMsg(req[i].timeout)
              /\ delivered[i][k].text = <<>>

C3_Witness ==
    \E i \in Inv :
        /\ Done(i) /\ spy[i].timedOut
        /\ proc[i].status = "killed" /\ Len(proc[i].out) = MaxOut /\ Utf8Valid(proc[i].out)
        /\ delivered[i][1].class = "TimeoutError"

\* C4: on every exit path of an invocation that spawned a process, the child
\* has ended and has been waited for when the invocation returns or raises.
C4_ChildReapedOnEveryExit ==
    \A i \in Inv : Done(i) /\ spy[i].spawned # <<>> =>
        proc[i].status \in {"exited", "killed"} /\ proc[i].reaped

\* The outcome classes of the functions.
ErrorClasses ==
    {"ValueError", "TimeoutError", "RuntimeError", "OSError", "UnicodeDecodeError",
     "ObserverError", "MethodNotFound", "InvalidParams", "Timeout", "InternalError"}

\* The text a successful invocation owes its caller: everything the process
\* wrote to stdout until it exited, in the form its tool returns it.
FullOutput(i) ==
    CASE req[i].fn = "handle_tool_call" -> locale_decode(proc[i].out)
      [] req[i].fn = "run_powershell_with_progress" /\ HasCtx(i) ->
           pw_Format(decode(proc[i].out))
      [] OTHER -> decode(proc[i].out)

C5_OneOutcome ==
    \A i \in Inv :
        /\ Len(delivered[i]) <= 1
        /\ Done(i) <=> Len(delivered[i]) = 1
        /\ \A k \in 1..Len(delivered[i]) :
              LET o == delivered[i][k]
              IN  \/ /\ o.kind = "error" /\ o.class \in ErrorClasses /\ o.text = <<>>
                  \/ /\ o.kind = "text" /\ o.class = "none" /\ o.msg = NoMsg
                     /\ proc[i].status = "exited" /\ proc[i].rc = 0
                     /\ ~spy[i].timedOut
                     /\ ServerTool(i) => Utf8Valid(proc[i].out)
                     /\ o.text = FullOutput(i)

C5_OutcomeIsFinal ==
    \A i \in Inv : delivered[i] # <<>> => delivered'[i] = delivered[i] /\ pc'[i] = "done"

\* C5: every invocation delivers exactly one outcome, a text or one
\* classified error, never both; a text is the whole output of a process that
\* exited with code 0, never a part of it; and once an outcome is delivered
\* no other one follows.
C5_ExactlyOneOutcome == [] C5_OneOutcome /\ [][C5_OutcomeIsFinal]_vars

C5_Witness ==
    \E i \in Inv :
        /\ Done(i) /\ delivered[i][1].kind = "text"
        /\ Len(proc[i].out) = MaxOut /\ proc[i].err # <<>>

\* The classes an entry point uses for a timeout and for a failed spawn.
TimeoutClass(i) == IF req[i].fn = "handle_tool_call" THEN "Timeout" ELSE "TimeoutError"
SpawnErrorClass(i) == IF req[i].fn = "handle_tool_call" THEN "InternalError" ELSE "OSError"

\* C6: when the process exits before the deadline with a non-zero exit code,
\* the invocation fails with an error whose message is the captured stderr
\* text, or 'Command failed with no error output' when stderr is empty, no
\* stdout is returned, and the class of the error is neither the class of a
\* timeout nor the class of a failed spawn, in every entry point.
C6_NonZeroExitClassified ==
    \A i \in Inv : Done(i) /\ sup[i] = "Completed" /\ proc[i].rc # 0 =>
        /\ Len(delivered[i]) = 1
        /\ delivered[i][1].kind = "error"
        /\ delivered[i][1].text = <<>>
        /\ CASE captured[i].stderr = <<>> -> delivered[i][1].msg = NoErrorOutputMsg
             [] captured[i].stderr # <<>> /\ req[i].fn = "handle_tool_call" ->
                  delivered[i][1].msg = TextMsg(locale_decode(captured[i].stderr))
             [] OTHER ->
                  /\ Utf8Valid(captured[i].stderr)
                  /\ delivered[i][1].msg = TextMsg(decode(captured[i].stderr))
        /\ delivered[i][1].class \notin {TimeoutClass(i), SpawnErrorClass(i)}

\* C7: for a text without a deny-listed pattern and a timeout in 1..300, when
\* the process exits with code 0 before the deadline, run_powershell /
\* execute_powershell returns exactly the captured stdout (the empty text
\* when nothing was captured) and raises no error, whatever stderr holds.
C7_ExitZeroReturnsStdout ==
    \A i \in Inv :
        /\ req[i].fn = "run_powershell"
        /\ Done(i) /\ sup[i] = "Completed" /\ proc[i].rc = 0
        => /\ Utf8Valid(captured[i].stdout)
           /\ delivered[i] = <<Text(decode(captured[i].stdout))>>

\* C8: in every entry point that spawns an interpreter process, the text
\* handed to the process has been checked by the validator in the same
\* invocation before the spawn, so a deny-listed text is never executed.
C8_ValidatedBeforeEverySpawn ==
    \A i \in Inv : spy[i].spawned # <<>> =>
        /\ spy[i].validated = spy[i].spawned
        /\ \A k \in 1..Len(spy[i].spawned) : spy[i].spawned[k] \notin DenyListedTexts

\* The invocation has failed: an error is on its way to the caller or has
\* been delivered, the spawn failed, or the deadline fired.
Failed(i) ==
    \/ pending[i].kind = "error"
    \/ sup[i] \in {"SpawnError", "TimedOut"}
    \/ \E k \in 1..Len(delivered[i]) : delivered[i][k].kind = "error"

C9_AtMostOnce ==
    \A i \in Inv :
        /\ Len(spy[i].spawned) <= 1
        /\ spy[i].kills <= 1
        /\ spy[i].kills = 1 => spy[i].timedOut /\ Len(spy[i].spawned) = 1

C9_FailureIsTerminal ==
    \A i \in Inv :
        /\ Failed(i) => Failed(i)' /\ spy'[i].spawned = spy[i].spawned
        /\ Failed(i) /\ ~(sup[i] = "TimedOut" /\ spy[i].kills = 0) =>
              spy'[i].kills = spy[i].kills
        /\ Done(i) => pc'[i] = "done" /\ spy'[i] = spy[i]

\* C9: nothing is retried: an invocation spawns the interpreter at most once
\* and kills at most once (the kill of a timeout), and after a failure no
\* further spawn and no kill beyond that one is made; the failure is final.
C9_NoRetry == [] C9_AtMostOnce /\ [][C9_FailureIsTerminal]_vars

C9_Witness ==
    \E i \in Inv :
        /\ Done(i) /\ spy[i].timedOut /\ spy[i].kills = 1 /\ Len(spy[i].spawned) = 1
        /\ delivered[i][1].kind = "error"

TerminalStates == {"Completed", "TimedOut", "SpawnError"}

C10_Lifecycle ==
    \A i \in Inv :
        /\ sup[i] \in {"Created", "Running"} \cup TerminalStates
        /\ sup[i] \in {"Created", "SpawnError"} <=> spy[i].spawned = <<>>
        /\ sup[i] \in {"Created", "SpawnError"} <=> proc[i].status = "none"
        /\ sup[i] = "Running" => proc[i].status \in {"running", "exited"} /\ ~Done(i)
        /\ sup[i] = "Completed" => proc[i].status = "exited" /\ ~spy[i].timedOut
        /\ sup[i] = "TimedOut" <=> spy[i].timedOut
        /\ sup[i] # "Created" => PassedChecks(i)
        /\ Done(i) /\ PassedChecks(i) => sup[i] \in TerminalStates

C10_Transition ==
    \A i \in Inv :
        \/ sup'[i] = sup[i]
        \/ sup[i] = "Created" /\ PassedChecks(i) /\ sup'[i] \in {"Running", "SpawnError"}
        \/ sup[i] = "Running" /\ sup'[i] \in {"Completed", "TimedOut"}

\* C10: the supervision goes Created -> Running -> {Completed, TimedOut,
\* SpawnError}: an invocation that passed the checks ends in exactly one of
\* the three terminal states, a terminal state is never left, and with a fair
\* scheduler and timer every such invocation reaches a terminal state and
\* returns to its caller.
C10_SupervisorLifecycle ==
    /\ [] C10_Lifecycle
    /\ [][C10_Transition]_vars
    /\ \A i \in Sequential :
          PassedChecks(i) ~> (Done(i) /\ sup[i] \in TerminalStates)

C10_Witness ==
    \E i \in Inv :
        /\ Done(i) /\ PassedChecks(i) /\ req[i].fn = "run_powershell"
        /\ sup[i] = "TimedOut" /\ proc[i].status = "killed"

\* The outcome run_powershell owes its caller, from the request of the
\* invocation and the state of its own child process alone.
OwnOutcome(i) ==
    CASE ~TimeoutValid(req[i].timeout) -> Err("ValueError", TimeoutRangeMsg)
      [] TimeoutValid(req[i].timeout) /\ req[i].code \in DenyListedTexts ->
           Err("ValueError", DangerousMsg)
      [] OTHER ->
           CASE proc[i].status = "none" ->
                  Err("OSError", FixedMsg("powershell could not be started"))
             [] proc[i].status # "none" /\ captured[i] = NoCapture /\ spy[i].timedOut ->
                  Err("TimeoutError", TimedOutMsg(req[i].timeout))
             [] OTHER ->
                  LET bs == IF proc[i].rc # 0 THEN proc[i].err ELSE proc[i].out
                  IN  CASE ~Utf8Valid(bs) ->
                             Err("UnicodeDecodeError", FixedMsg("invalid start byte"))
                        [] Utf8Valid(bs) /\ proc[i].rc # 0 ->
                             Err("RuntimeError",
                                 IF bs = <<>> THEN NoErrorOutputMsg ELSE TextMsg(decode(bs)))
                        [] OTHER -> Text(decode(bs))

C11_OwnOutcome ==
    \A i \in Inv : Done(i) => delivered[i] = <<OwnOutcome(i)>>

\* The state of invocation j.
Slot(j) == <<req[j], pc[j], proc[j], captured[j], pending[j], sup[j], spy[j], delivered[j]>>

C11_OwnStateOnly ==
    /\ \E i \in Inv : \A j \in Inv \ {i} : Slot(j)' = Slot(j)
    /\ \A i \in Inv :
          /\ spy'[i].kills > spy[i].kills =>
                /\ spy[i].timedOut
                /\ \A j \in Inv \ {i} : proc'[j] = proc[j]
          /\ proc'[i].status = "killed" /\ proc[i].status # "killed" =>
                spy[i].timedOut /\ spy'[i].kills = spy[i].kills + 1

\* C11: invocations in flight at the same time share no mutable state: a
\* step of one invocation changes nothing of another, the outcome of an
\* invocation is the one its own text, timeout and child process give, and
\* the kill of a timeout reaches the process of the invocation that timed
\* out and no other.
C11_InvocationsIndependent == [] C11_OwnOutcome /\ [][C11_OwnStateOnly]_vars

C11_Witness ==
    \E i, j \in Inv :
        /\ i # j
        /\ Done(i) /\ spy[i].timedOut /\ proc[i].status = "killed"
        /\ Done(j) /\ delivered[j][1].kind = "text" /\ delivered[j][1].text # <<>>
        /\ spy[j].spawned # <<>> /\ ~spy[j].timedOut

\* The deny-list patterns (by their place in the list) that match the text.
MatchedPatterns(code) ==
    {k \in 1..Len(dangerous_patterns) : re_search(dangerous_patterns[k], code)}

\* An error message that names pattern k of the deny list.
PatternMsg(k) == [tag |-> "pattern", s |-> "", t |-> <<>>, n |-> k]

\* C12: when execute_powershell or run_powershell_with_progress rejects a
\* text, the error delivered to the caller names a deny-list pattern that
\* the text matches, not only a fixed message.
C12_RejectionNamesPattern ==
    \A i \in Inv :
        ServerTool(i) /\ Done(i) /\ spy[i].timeoutOk /\ MatchedPatterns(req[i].code) # {} =>
            /\ delivered[i][1].kind = "error"
            /\ \E k \in MatchedPatterns(req[i].code) : delivered[i][1].msg = PatternMsg(k)

\* The classes an entry point uses for a timeout out of range, for a
\* rejected text and for a non-zero exit code (handle_tool_call rejects no text).
ParamErrorClass(i) == IF req[i].fn = "handle_tool_call" THEN "InvalidParams" ELSE "ValueError"
ValidationErrorClass(i) == IF req[i].fn = "handle_tool_call" THEN "none" ELSE "ValueError"
ProcessErrorClass(i) == IF req[i].fn = "handle_tool_call" THEN "InternalError" ELSE "RuntimeError"

\* C13: when the interpreter cannot be launched, the invocation ends in the
\* SpawnError state with one error whose class is the one of an internal
\* error, different from the classes of a parameter, validation, timeout and
\* process error of the same entry point, and nothing is killed; in
\* execute_powershell, run_powershell_with_progress and handle_tool_call.
C13_SpawnErrorIsInternal ==
    \A i \in Inv : Done(i) /\ sup[i] = "SpawnError" =>
        /\ Len(delivered[i]) = 1
        /\ delivered[i][1].kind = "error"
        /\ delivered[i][1].class = SpawnErrorClass(i)
        /\ delivered[i][1].class \notin {ParamErrorClass(i), ValidationErrorClass(i),
                                         TimeoutClass(i), ProcessErrorClass(i)}
        /\ spy[i].kills = 0 /\ spy[i].spawned = <<>>
        /\ proc[i].status = "none"

\* ---------------------------------------------- the claims on the templates

\* sub occurs in s; the places where it does.
OccurrencesOf(s, sub) == {p \in 1..Len(s) : StartsWith(SubSeq(s, p, Len(s)), sub)}
Contains(s, sub) == OccurrencesOf(s, sub) # {}

Braces == {"{", "}"}
BraceFree(t) == \A j \in 1..Len(t) : t[j] \notin Braces

\* The last operation rendered a template and returned the content.
RenderedText == last.op = "render" /\ last.res.kind = "text"
\* The text of the template the last operation rendered.
RenderedTemplate == last.before.files[TemplatePath(last.name)]

\* No value of the map contains the marker of a key of the map.
NoValueHasMarker(m) ==
    \A j, k \in 1..Len(m) : ~Contains(Str(m[j].v), Marker(m[k].k))

\* The original statement of C14: all occurrences of the marker of every key
\* are replaced and none remains, provided no value contains a marker.
C14_NoMarkerRemains ==
    RenderedText /\ NoValueHasMarker(last.after) =>
        \A k \in 1..Len(last.after) : ~Contains(last.res.text, Marker(last.after[k].k))

\* Every brace of the text belongs to a marker {{name}} whose name has no brace.
BracesInMarkers(t) ==
    \A p \in 1..Len(t) : t[p] \in Braces =>
        \E a, b \in 1..Len(t) :
            /\ a + 4 <= b /\ p \in {a, a + 1, b - 1, b}
            /\ t[a] = "{" /\ t[a + 1] = "{" /\ t[b - 1] = "}" /\ t[b] = "}"
            /\ BraceFree(SubSeq(t, a + 2, b - 2))

\* The sum of f over the set S.
RECURSIVE Sum(_, _)
Sum(f, S) == IF S = {} THEN 0 ELSE LET x == CHOOSE y \in S : TRUE IN f[x] + Sum(f, S \ {x})

\* C14: generate_script_from_template replaces every occurrence of the marker
\* {{KEY}} of every key of the map (the map with its DATE) by str(value): when
\* no key and no value has a brace and every brace of the template belongs to
\* a marker, no marker of a key remains in the content, and the content has
\* the length of the template with every occurrence of a marker exchanged for
\* its value.
C14_EveryOccurrenceReplaced ==
    LET m == last.after
    IN  /\ RenderedText
        /\ BracesInMarkers(RenderedTemplate)
        /\ \A k \in 1..Len(m) : BraceFree(m[k].k) /\ BraceFree(Str(m[k].v))
        => /\ \A k \in 1..Len(m) : ~Contains(last.res.text, Marker(m[k].k))
           /\ Len(last.res.text) =
                 Len(RenderedTemplate)
                 - Sum([k \in 1..Len(m) |->
                          Cardinality(OccurrencesOf(RenderedTemplate, Marker(m[k].k)))
                          * (Len(Marker(m[k].k)) - Len(Str(m[k].v)))],
                       1..Len(m))

C14_Witness ==
    /\ RenderedText /\ last.name = "two"
    /\ last.arg = <<Item(<<"A">>, StrV(<<"x">>))>>
    /\ last.res.text = <<"x", "-", "x", ":">> \o last.date

\* The name is the name of no template of the catalog.
NotInCatalog(fs, name) == TemplatePath(name) \notin DOMAIN Catalog(fs)

\* C15: rendering or fetching a template whose name is not in the catalog
\* fails with the not-found error, and nothing has happened: the file system
\* is what it was, and the caller's map is the map that was passed (no DATE
\* was put into it).
C15_UnknownTemplateNoEffect ==
    last.op \in {"render", "fetch"} /\ NotInCatalog(last.before, last.name) =>
        /\ last.res.kind = "error"
        /\ last.res.class = "ValueError"
        /\ last.res.msg \in {NotFoundMsg(last.name), NotFoundQuotedMsg(last.name)}
        /\ fsys = last.before
        /\ last.op = "render" => last.after = last.arg /\ pmap = last.arg

C15_Witness ==
    /\ last.op = "render" /\ last.name = "missing" /\ last.out = RelPath(<<Comp("s", "ps1")>>)
    /\ last.arg = <<Item(<<"A">>, StrV(<<"x">>))>>
    /\ last.res.kind = "error"
    /\ ~HasKey(pmap, DATE)

\* The value of key k in the map m.
ValueOf(m, k) == m[CHOOSE j \in 1..Len(m) : m[j].k = k].v

\* The content the last render produced: returned, or written to its path.
RenderedContent ==
    IF last.res.kind = "text" THEN last.res.text ELSE fsys.files[Resolve(last.out)]

\* C16: on every successful render the DATE of the map is the date of the
\* day, whatever DATE the caller passed; where the template has the marker
\* {{DATE}} the content has the date of the day, and a DATE the caller passed
\* (one that occurs in nothing else that is rendered) is not in the content.
C16_DateOverwritten ==
    last.op = "render" /\ last.res.kind \in {"text", "saved"} =>
        /\ HasKey(last.after, DATE)
        /\ ValueOf(last.after, DATE) = StrV(last.date)
        /\ HasKey(pmap, DATE) /\ ValueOf(pmap, DATE) = StrV(last.date)
        /\ Contains(RenderedTemplate, Marker(DATE))
           /\ (\A k \in 1..Len(last.arg) : BraceFree(Str(last.arg[k].v)))
           => /\ Contains(RenderedContent, last.date)
              /\ ~Contains(RenderedContent, Marker(DATE))
              /\ \A k \in 1..Len(last.arg) :
                    /\ last.arg[k].k = DATE
                    /\ Str(last.arg[k].v) # <<>>
                    /\ ~Contains(last.date, Str(last.arg[k].v))
                    /\ ~Contains(RenderedTemplate, Str(last.arg[k].v))
                    /\ \A j \in 1..Len(last.arg) :
                          j # k => ~Contains(Str(last.arg[j].v), Str(last.arg[k].v))
                    => ~Contains(RenderedContent, Str(last.arg[k].v))

C16_Witness ==
    /\ RenderedText /\ last.name = "two"
    /\ last.arg = <<Item(DATE, StrV(<<"c">>)), Item(<<"A">>, IntV(5))>>
    /\ last.res.text = <<"5", "-", "5", ":">> \o last.date

\* C17: two renders of the same template to the same destination on the same
\* day with an unchanged catalog return the same, when the second is passed
\* a map equal to the one of the first, and also when it is passed the map
\* object of the first, which by then holds the DATE.
C17_RenderRepeatable ==
    /\ prev.op = "render" /\ last.op = "render"
    /\ last.name = prev.name /\ last.out = prev.out /\ last.date = prev.date
    /\ Catalog(last.before) = Catalog(prev.before)
    /\ \/ last.arg = prev.arg
       \/ last.reused /\ last.arg = prev.after
    => last.res = prev.res

C17_Witness ==
    /\ prev.op = "render" /\ last.op = "render"
    /\ prev.name = "two" /\ last.name = "two"
    /\ prev.res.kind = "text" /\ last.res = prev.res
    /\ last.date = prev.date
    /\ last.reused /\ last.arg = prev.after /\ last.arg # prev.arg

\* The files the last operation created or changed.
Written == {f \in DOMAIN fsys.files :
               f \notin DOMAIN last.before.files \/ fsys.files[f] # last.before.files[f]}

\* The two files of a pair in the directory the caller named.
PairDetect == Resolve(last.out) \o <<Comp("detect", "ps1")>>
PairRemedy == Resolve(last.out) \o <<Comp("remedy", "ps1")>>

C19_DirectoryEnsuredBeforeWrite ==
    /\ last.op \in {"render", "custom", "detection", "remediation"}
    /\ Truthy(last.out)
    /\ last.op = "render" => ~NotInCatalog(last.before, last.name)
    => /\ last.res.kind = "saved"
       /\ Resolve(last.res.path) = Resolve(last.out)
       /\ IsDir(fsys, Front(Resolve(last.out)))
       /\ IsFile(fsys, Resolve(last.out))

\* C20: the catalog is read-only: the templates and their texts are the ones
\* of startup, whatever operations have run.
C20_CatalogReadOnly == Catalog(fsys) = Catalog(InitialFileSystem)

C23_Race(i) ==
    /\ spy[i].kills <= 1
    /\ spy[i].kills = 1 => spy[i].timedOut /\ sup[i] = "TimedOut" /\ captured[i] = NoCapture
    /\ sup[i] = "Completed" => spy[i].kills = 0 /\ ~spy[i].timedOut
    /\ \A k \in 1..Len(delivered[i]) : delivered[i][k].kind = "text" => spy[i].kills = 0
    /\ Done(i) /\ spy[i].timedOut =>
          /\ spy[i].kills = 1
          /\ proc[i].status \in {"killed", "exited"}
          /\ ~spy[i].obsRaised =>
                delivered[i] = <<Err(TimeoutClass(i), TimedOutMsg(req[i].timeout))>>

\* The loser stays cancelled: after the deadline the wait never completes,
\* and after the wait completed the deadline never fires.
C23_LoserStaysCancelled ==
    \A i \in Inv :
        /\ sup[i] = "TimedOut" => sup'[i] = "TimedOut" /\ captured'[i] = NoCapture
        /\ sup[i] = "Completed" => sup'[i] = "Completed" /\ spy'[i].kills = 0

\* C23: in the race of the exit of the process and the deadline the loser is
\* cancelled: a deadline that fires first is followed by exactly one kill and
\* the wait never returns; a wait that returns first is followed by no kill
\* and no timeout; no invocation has both a kill and a returned text.
C23_RaceLoserCancelled ==
    [] (\A i \in Inv : C23_Race(i)) /\ [][C23_LoserStaysCancelled]_vars

C23_Witness ==
    \E i \in Inv :
        /\ Done(i) /\ req[i].fn = "run_powershell"
        /\ spy[i].timedOut /\ spy[i].kills = 1
        /\ proc[i].status = "killed"
        /\ delivered[i] = <<Err("TimeoutError", TimedOutMsg(req[i].timeout))>>

\* Invocations i and j were given the same text and timeout and met the same
\* behaviour of the process and of the timer.
SameRun(i, j) ==
    /\ req[i].code = req[j].code /\ req[i].timeout = req[j].timeout
    /\ proc[i] = proc[j]
    /\ spy[i].timedOut = spy[j].timedOut

\* C25: the observer does not influence execute_powershell: an invocation
\* without ctx and one with a ctx whose methods return, given the same text
\* and timeout and the same behaviour of the process, have validated, spawned
\* and killed the same and have returned the same text or raised the same
\* error; and the invocation without ctx fails only where its text, its
\* timeout or its process make it fail.
C25_ObserverHasNoInfluence ==
    \A i, j \in Inv :
        /\ Done(i) /\ Done(j)
        /\ req[i].ctx = "none" /\ req[j].ctx = "ok"
        /\ SameRun(i, j)
        => /\ delivered[i] = delivered[j]
           /\ spy[i].timeoutOk = spy[j].timeoutOk
           /\ spy[i].validated = spy[j].validated
           /\ spy[i].spawned = spy[j].spawned
           /\ spy[i].kills = spy[j].kills
           /\ sup[i] = sup[j]
           /\ delivered[i] = <<OwnOutcome(i)>>

C25_Witness ==
    \E i, j \in Inv :
        /\ Done(i) /\ Done(j)
        /\ req[i].ctx = "none" /\ req[j].ctx = "ok"
        /\ SameRun(i, j)
        /\ spy[i].spawned # <<>>
        /\ delivered[i] = <<Text(<<"o">>)>>
        /\ delivered[j] = <<Text(<<"o">>)>>

\* ------------------------------------------ the claims on the templates, 2

\* C26: the substitution runs over the items of the map in their order (the
\* DATE of a caller that passed none comes last) on the text as it stands:
\* when the template has the marker of key A and the value of A holds the
\* marker of another key B whose value has no brace, the content has no
\* marker of B and has the value of B when B comes after A, and the content
\* still has the marker of B when B comes before A.
C26_SequentialInMapOrder ==
    LET m == last.after
    IN  RenderedText /\ BracesInMarkers(RenderedTemplate) =>
            \A a, b \in 1..Len(m) :
                /\ a # b
                /\ Contains(RenderedTemplate, Marker(m[a].k))
                /\ Contains(Str(m[a].v), Marker(m[b].k))
                /\ BraceFree(Str(m[b].v))
                => IF a < b
                   THEN /\ ~Contains(last.res.text, Marker(m[b].k))
                        /\ Contains(last.res.text, Str(m[b].v))
                   ELSE Contains(last.res.text, Marker(m[b].k))

\* Two renders of one template on one day with maps of the same items in
\* another order, and the contents differ.
C26_Witness ==
    /\ prev.op = "render" /\ last.op = "render"
    /\ prev.name = "two" /\ last.name = "two" /\ prev.date = last.date
    /\ prev.arg = <<Item(<<"A">>, StrV(<<"{", "{", "B", "}", "}">>)), Item(<<"B">>, StrV(<<"z">>))>>
    /\ last.arg = <<Item(<<"B">>, StrV(<<"z">>)), Item(<<"A">>, StrV(<<"{", "{", "B", "}", "}">>))>>
    /\ prev.res = Text(<<"z", "-", "z", ":">> \o prev.date)
    /\ last.res = Text(<<"{", "{", "B", "}", "}", "-", "{", "{", "B", "}", "}", ":">> \o last.date)

\* C27: generate_intune_script_pair with an output directory is not atomic:
\* when the detection step can be done and the remediation step cannot (its
\* template is not in the catalog, or remedy.ps1 cannot be written), the call
\* raises an error, detect.ps1 is there with the detection script, and
\* remedy.ps1 has not been written.
C27_PairNotAtomic ==
    /\ last.op = "pair" /\ Truthy(last.out)
    /\ ~NotInCatalog(last.before, "intune_detection")
    /\ CanMakeDirs(last.before, Resolve(last.out))
    /\ ~IsDir(last.before, PairDetect)
    /\ NotInCatalog(last.before, "intune_remediation") \/ IsDir(last.before, PairRemedy)
    => /\ last.res.kind = "error"
       /\ IsFile(fsys, PairDetect)
       /\ Text(fsys.files[PairDetect]) =
             generate_intune_detection_script(last.before, Args.description,
                                              Args.detection_logic, NoPath, last.date).res
       /\ PairRemedy \notin Written
       /\ ~IsFile(fsys, PairRemedy)

C27_Witness ==
    /\ last.op = "pair" /\ last.out = DotPath(<<Comp("out", "")>>)
    /\ last.res = Err("IsADirectoryError", FixedMsg("Is a directory"))
    /\ IsDir(last.before, PairRemedy)
    /\ ~IsFile(last.before, PairDetect)
    /\ Written = {PairDetect}
    /\ Contains(fsys.files[PairDetect], Args.detection_logic)

\* ---------------------------------------- the claims on the structured queries

QueryTools == {"get_system_info", "get_running_services", "get_processes", "get_event_logs"}

\* The caller's texts of a query: every property, every filter value.
CallerTexts(i) == {req[i].args.texts[k] : k \in 1..Len(req[i].args.texts)}

\* C22: in a structured query the command is assembled and the suffix is added
\* before execute_powershell is entered, the validator runs before the spawn,
\* and the text passed to the interpreter is character for character the text
\* the validator accepted: the handed text, which holds every text of the
\* caller. A caller's text with a deny-listed pattern makes the call fail with
\* no process spawned.
C22_QueryValidatedAsAssembled ==
    \A i \in Inv : req[i].fn \in QueryTools =>
        /\ \A a \in CallerTexts(i) : Contains(req[i].code, a)
        /\ StartsWith(req[i].code, req[i].args.assembled)
        /\ spy[i].validated \in {<<>>, <<req[i].code>>}
        /\ spy[i].spawned \in {<<>>, spy[i].validated}
        /\ pc[i] \in {"idle", "ep_timeout", "ep_validate"} => spy[i].validated = <<>>
        /\ (\E a \in CallerTexts(i) : ~validate_powershell_code(a)) =>
              /\ spy[i].validated = <<>>
              /\ spy[i].spawned = <<>>
              /\ proc[i] = NoProcess
              /\ Done(i) => /\ Len(delivered[i]) = 1
                            /\ delivered[i][1].kind = "error"
                            /\ delivered[i][1].class = "ValueError"

\* A service query whose status filter holds a deny-listed pattern was refused
\* by the validator.
C22_Witness ==
    \E i \in Inv :
        /\ req[i].fn = "get_running_services"
        /\ \E a \in CallerTexts(i) : ~validate_powershell_code(a)
        /\ spy[i].timeoutOk
        /\ delivered[i] = <<Err("ValueError", DangerousMsg)>>

\* The text without its surrounding whitespace, in lower case.
StripLower(s) ==
    LET Inked == {k \in 1..Len(s) : s[k] \notin Whitespace}
    IN  IF Inked = {} THEN <<>>
        ELSE LET a == CHOOSE a \in Inked : \A k \in Inked : a <= k
                 b == CHOOSE b \in Inked : \A k \in Inked : k <= b
             IN  [k \in 1..(b - a + 1) |-> Lower(s[a + k - 1])]

ConvertToJson == <<"|", " ", "c", "o", "n", "v", "e", "r", "t", "t", "o", "-", "j", "s", "o", "n">>

\* The text ends with '| convertto-json', surrounding whitespace and letter
\* case ignored.
EndsWithSuffix(s) ==
    LET n == StripLower(s)
    IN  /\ Len(n) >= Len(ConvertToJson)
        /\ SubSeq(n, Len(n) - Len(ConvertToJson) + 1, Len(n)) = ConvertToJson

\* How many times the suffix is repeated at the end of the text.
RECURSIVE TrailingSuffixes(_)
TrailingSuffixes(s) ==
    IF EndsWithSuffix(s)
    THEN 1 + TrailingSuffixes(SubSeq(StripLower(s), 1, Len(StripLower(s)) - Len(ConvertToJson)))
    ELSE 0

\* What format_json_output does to the assembled command of a query, and that
\* a second application changes nothing. The claims look at the text where
\* execute_powershell is entered with it; the request does not change later.
SuffixAppendedUnlessPresent(i) ==
    /\ req[i].code = IF EndsWithSuffix(req[i].args.assembled)
                     THEN req[i].args.assembled
                     ELSE req[i].args.assembled \o <<" ", "|", " ", "C", "o", "n", "v", "e", "r", "t", "T", "o", "-", "J", "s", "o", "n">>
    /\ format_json_output(req[i].code) = req[i].code
    /\ EndsWithSuffix(req[i].code)

\* C24, as the specification states it: format_json_output appends
\* " | ConvertTo-Json" unless the text (surrounding whitespace ignored) ends,
\* case-insensitively, with '| convertto-json'; it is idempotent; and every
\* structured query hands execute_powershell a text that ends with the suffix
\* exactly once.
C24_EndsWithSuffixOnce ==
    \A i \in Inv : req[i].fn \in QueryTools /\ pc[i] = "ep_timeout" =>
        /\ SuffixAppendedUnlessPresent(i)
        /\ TrailingSuffixes(req[i].code) = 1

\* C24, amended: format_json_output appends " | ConvertTo-Json" unless the
\* text (surrounding whitespace ignored) ends, case-insensitively, with
\* '| convertto-json'; it is idempotent; and every structured query hands
\* execute_powershell a text that ends with the suffix: exactly once, except
\* that a text which already ends with the suffix is handed on as it is, so
\* that get_system_info, whose command ends with the caller's last property,
\* hands on a suffix the caller repeated as often as the caller repeated it.
C24_SuffixAppendedAtMostOnce ==
    \A i \in Inv : req[i].fn \in QueryTools /\ pc[i] = "ep_timeout" =>
        /\ SuffixAppendedUnlessPresent(i)
        /\ TrailingSuffixes(req[i].code) =
              IF EndsWithSuffix(req[i].args.assembled)
              THEN TrailingSuffixes(req[i].args.assembled) ELSE 1
        /\ req[i].fn # "get_system_info" \/ req[i].args.texts = <<>> =>
              TrailingSuffixes(req[i].code) = 1

\* A get_system_info whose last property ends with the suffix in another
\* letter case and a line end was spawned with the text as assembled.
C24_Witness ==
    \E i \in Inv :
        /\ req[i].fn = "get_system_info"
        /\ EndsWithSuffix(req[i].args.assembled)
        /\ TrailingSuffixes(req[i].args.assembled) = 1
        /\ req[i].args.assembled # StripLower(req[i].args.assembled)
        /\ spy[i].spawned = <<req[i].args.assembled>>

====
